---- MODULE Spec2Model ----
(***************************************************************************)
(* Line burndown core of hercules: the red-black tree (src/rbtree), the    *)
(* File interval map built on it, and the counters fed by File.Update.     *)
(*                                                                         *)
(* Go pointers are node identifiers into one heap (a function from         *)
(* identifier to node record).  nil is Nil, the process-wide               *)
(* negativeLimitNode is a reserved identifier.  Addresses carry no order   *)
(* in Go, so after every operation the live nodes are renumbered by their  *)
(* in-order position; every pointer held anywhere (tree fields, the        *)
(* iterator, the copy) is renamed by the same map.                         *)
(***************************************************************************)
EXTENDS Integers, Sequences, FiniteSets, TLC

VARIABLES heap, tree, copyTree, iter, ret, file, lines0, emitted, globalStatus,
          files, sideFiles, store, objects, commitDeps, people, merged, mr,
          commits

vars == <<heap, tree, copyTree, iter, ret, file, lines0, emitted, globalStatus,
          files, sideFiles, store, objects, commitDeps, people, merged, mr,
          commits>>

(***************************************************************************)
(* Bounds of the model.                                                    *)
(***************************************************************************)
MaxKey == 6
MaxItemKey == 3
MaxCopyKey == 2
MaxLines == 3
MaxCount == 2
MaxEdits == 3

Keys == 0..MaxKey
ItemKeys == 0..MaxItemKey
CopyKeys == 0..MaxCopyKey
Values == {0, 1}
Days == {0}
People == {0, 1}

(***************************************************************************)
(* rbtree.go: constants and the node record.                               *)
(***************************************************************************)
Nil == 0
negativeLimitNode == -1
red == 0
black == 1

Item(k, v) == [Key |-> k, Value |-> v]

node(item, parent) ==
  [item |-> item, parent |-> parent, left |-> Nil, right |-> Nil, color |-> red]

RBTree == [root |-> Nil, minNode |-> Nil, maxNode |-> Nil, count |-> 0]

\* A tree together with the heap its nodes live in: the receiver of every method.
On(h, t) == [h |-> h, root |-> t.root, minNode |-> t.minNode,
             maxNode |-> t.maxNode, count |-> t.count, panicked |-> FALSE]

TreeOf(s) == [root |-> s.root, minNode |-> s.minNode, maxNode |-> s.maxNode,
              count |-> s.count]

Set(s, n, f, v) == [s EXCEPT !.h[n][f] = v]

NewId(h) == CHOOSE i \in 1..(Cardinality(DOMAIN h) + 1) : i \notin DOMAIN h

doAssert(s, b) == IF b THEN s ELSE [s EXCEPT !.panicked = TRUE]

getColor(h, n) == IF n = Nil THEN black ELSE h[n].color

isLeftChild(h, n) == n = h[h[n].parent].left

isRightChild(h, n) == n = h[h[n].parent].right

sibling(h, n) ==
  IF isLeftChild(h, n) THEN h[h[n].parent].right ELSE h[h[n].parent].left

RECURSIVE leftmost(_, _)
leftmost(h, m) == IF h[m].left # Nil THEN leftmost(h, h[m].left) ELSE m

RECURSIVE rightmost(_, _)
rightmost(h, m) == IF h[m].right # Nil THEN rightmost(h, h[m].right) ELSE m

RECURSIVE climbNext(_, _)
climbNext(h, n) ==
  LET p == h[n].parent IN
  IF p = Nil THEN Nil
  ELSE IF isLeftChild(h, n) THEN p
  ELSE climbNext(h, p)

doNext(h, n) ==
  IF h[n].right # Nil THEN leftmost(h, h[n].right) ELSE climbNext(h, n)

maxPredecessor(h, n) == rightmost(h, h[n].left)

RECURSIVE climbPrev(_, _)
climbPrev(h, n) ==
  LET p == h[n].parent IN
  IF p = Nil THEN negativeLimitNode
  ELSE IF isRightChild(h, n) THEN p
  ELSE climbPrev(h, p)

doPrev(h, n) ==
  IF h[n].left # Nil THEN maxPredecessor(h, n) ELSE climbPrev(h, n)

recomputeMinNode(s) ==
  [s EXCEPT !.minNode = IF s.root = Nil THEN Nil ELSE leftmost(s.h, s.root)]

\* A recompute of the maximum that stops at the root.
recomputeMaxNode_Root(s) == [s EXCEPT !.maxNode = s.root]

recomputeMaxNode(s) ==
  [s EXCEPT !.maxNode = IF s.root = Nil THEN Nil ELSE rightmost(s.h, s.root)]

maybeSetMinNode(s, n) ==
  IF s.minNode = Nil THEN [s EXCEPT !.minNode = n, !.maxNode = n]
  ELSE IF s.h[n].item.Key < s.h[s.minNode].item.Key THEN [s EXCEPT !.minNode = n]
  ELSE s

maybeSetMaxNode(s, n) ==
  IF s.maxNode = Nil THEN [s EXCEPT !.minNode = n, !.maxNode = n]
  ELSE IF s.h[n].item.Key > s.h[s.maxNode].item.Key THEN [s EXCEPT !.maxNode = n]
  ELSE s

\* "if c != nil { c.parent = p }"
reparent(s, c, p) == IF c # Nil THEN Set(s, c, "parent", p) ELSE s

replaceNode(s, oldn, newn) ==
  LET p == s.h[oldn].parent
      link(t) == IF p = Nil THEN [t EXCEPT !.root = newn]
                 ELSE IF oldn = t.h[p].left THEN Set(t, p, "left", newn)
                 ELSE Set(t, p, "right", newn)
  IN  reparent(link(s), newn, p)

rotateLeft(s, x) ==
  LET y == s.h[x].right
      moveB(t) == reparent(Set(t, x, "right", t.h[y].left), t.h[y].left, x)
      up(t) == Set(t, y, "parent", t.h[x].parent)
      link(t) == IF t.h[x].parent = Nil THEN [t EXCEPT !.root = y]
                 ELSE IF isLeftChild(t.h, x) THEN Set(t, t.h[x].parent, "left", y)
                 ELSE Set(t, t.h[x].parent, "right", y)
      down(t) == Set(Set(t, y, "left", x), x, "parent", y)
  IN  down(link(up(moveB(s))))

rotateRight(s, y) ==
  LET x == s.h[y].left
      moveB(t) == reparent(Set(t, y, "left", t.h[x].right), t.h[x].right, y)
      up(t) == Set(t, x, "parent", t.h[y].parent)
      link(t) == IF t.h[y].parent = Nil THEN [t EXCEPT !.root = x]
                 ELSE IF isLeftChild(t.h, y) THEN Set(t, t.h[y].parent, "left", x)
                 ELSE Set(t, t.h[y].parent, "right", x)
      down(t) == Set(Set(t, x, "right", y), y, "parent", x)
  IN  down(link(up(moveB(s))))

\* doInsert: the descent from "parent"; n = Nil when the key is already stored.
RECURSIVE doInsertFrom(_, _, _)
doInsertFrom(s, item, parent) ==
  LET comp == item.Key - s.h[parent].item.Key
      n    == NewId(s.h)
      s1   == [s EXCEPT !.h = s.h @@ (n :> node(item, parent))]
  IN  IF comp = 0 THEN [s |-> s, n |-> Nil]
      ELSE IF comp < 0 THEN
        IF s.h[parent].left = Nil
        THEN LET s2 == Set(s1, parent, "left", n)
                 s3 == [s2 EXCEPT !.count = @ + 1]
             IN  [s |-> maybeSetMinNode(s3, n), n |-> n]
        ELSE doInsertFrom(s, item, s.h[parent].left)
      ELSE
        IF s.h[parent].right = Nil
        THEN LET s2 == Set(s1, parent, "right", n)
                 s3 == [s2 EXCEPT !.count = @ + 1]
             IN  [s |-> maybeSetMaxNode(s3, n), n |-> n]
        ELSE doInsertFrom(s, item, s.h[parent].right)

doInsert(s, item) ==
  IF s.root = Nil
  THEN LET n == NewId(s.h) IN
       [s |-> [s EXCEPT !.h = s.h @@ (n :> node(item, Nil)), !.root = n,
                        !.minNode = n, !.maxNode = n, !.count = @ + 1],
        n |-> n]
  ELSE doInsertFrom(s, item, s.root)

\* The rebalancing loop of Insert, from the top of one iteration with node n.
RECURSIVE insertLoop(_, _)
insertLoop(s, n) ==
  LET h == s.h
      p == h[n].parent
  IN  IF p = Nil THEN Set(s, n, "color", black)
      ELSE IF h[p].color = black THEN s
      ELSE
        LET grandparent == h[p].parent
            uncle == IF isLeftChild(h, p) THEN h[grandparent].right
                     ELSE h[grandparent].left
        IN  IF uncle # Nil /\ h[uncle].color = red
            THEN insertLoop(Set(Set(Set(s, p, "color", black), uncle, "color", black),
                                grandparent, "color", red), grandparent)
            ELSE IF isRightChild(h, n) /\ isLeftChild(h, p)
            THEN LET s1 == rotateLeft(s, p) IN insertLoop(s1, s1.h[n].left)
            ELSE IF isLeftChild(h, n) /\ isRightChild(h, p)
            THEN LET s1 == rotateRight(s, p) IN insertLoop(s1, s1.h[n].right)
            ELSE LET s1 == Set(Set(s, p, "color", black), grandparent, "color", red)
                 IN  IF isLeftChild(s1.h, n) THEN rotateRight(s1, grandparent)
                     ELSE rotateLeft(s1, grandparent)

\* findGE: [n, exact].
RECURSIVE findGEFrom(_, _, _)
findGEFrom(s, key, n) ==
  IF n = Nil THEN [n |-> Nil, exact |-> FALSE]
  ELSE LET comp == key - s.h[n].item.Key IN
       IF comp = 0 THEN [n |-> n, exact |-> TRUE]
       ELSE IF comp < 0 THEN
         IF s.h[n].left # Nil THEN findGEFrom(s, key, s.h[n].left)
         ELSE [n |-> n, exact |-> FALSE]
       ELSE
         IF s.h[n].right # Nil THEN findGEFrom(s, key, s.h[n].right)
         ELSE LET succ == doNext(s.h, n) IN
              IF succ = Nil THEN [n |-> Nil, exact |-> FALSE]
              ELSE [n |-> succ, exact |-> key = s.h[succ].item.Key]

findGE(s, key) == findGEFrom(s, key, s.root)

\* Iterators are the node they point at (Iterator.root is the receiver tree).
FindGE(s, key) == findGE(s, key).n

\* A FindLE that forgets to step back from the successor.
FindLE_NoPrev(s, key) ==
  LET r == findGE(s, key) IN
  IF r.n # Nil THEN r.n
  ELSE IF s.maxNode = Nil THEN negativeLimitNode
  ELSE s.maxNode

FindLE(s, key) ==
  LET r == findGE(s, key) IN
  IF r.exact THEN r.n
  ELSE IF r.n # Nil THEN doPrev(s.h, r.n)
  ELSE IF s.maxNode = Nil THEN negativeLimitNode
  ELSE s.maxNode

Min(s) == s.minNode

Max(s) == IF s.maxNode = Nil THEN negativeLimitNode ELSE s.maxNode

\* A Prev that refuses Limit as it refuses NegativeLimit.
IteratorPrev_NoLimit(s, it) ==
  IF it = negativeLimitNode \/ it = Nil THEN [n |-> it, panicked |-> TRUE]
  ELSE [n |-> doPrev(s.h, it), panicked |-> FALSE]

\* Iterator.Next: [n, panicked]; the assertion panics before anything is returned.
IteratorNext(s, it) ==
  IF it = Nil THEN [n |-> it, panicked |-> TRUE]
  ELSE IF it = negativeLimitNode THEN [n |-> s.minNode, panicked |-> FALSE]
  ELSE [n |-> doNext(s.h, it), panicked |-> FALSE]

\* Iterator.Prev
IteratorPrev(s, it) ==
  IF it = negativeLimitNode THEN [n |-> it, panicked |-> TRUE]
  ELSE IF it # Nil THEN [n |-> doPrev(s.h, it), panicked |-> FALSE]
  ELSE IF s.maxNode = Nil THEN [n |-> negativeLimitNode, panicked |-> FALSE]
  ELSE [n |-> s.maxNode, panicked |-> FALSE]

\* An Insert that stores the new value when the key is already there.
Insert_Overwrite(s, item) ==
  LET r == doInsert(s, item) IN
  IF r.n = Nil
  THEN [s |-> Set(r.s, findGE(r.s, item.Key).n, "item", item), ok |-> FALSE, n |-> Nil]
  ELSE [s |-> insertLoop(Set(r.s, r.n, "color", red), r.n), ok |-> TRUE, n |-> r.n]

\* RBTree.Insert: [s, ok, n] with n the inserted node (Nil when ok is FALSE).
Insert(s, item) ==
  LET r == doInsert(s, item) IN
  IF r.n = Nil THEN [s |-> r.s, ok |-> FALSE, n |-> Nil]
  ELSE [s |-> insertLoop(Set(r.s, r.n, "color", red), r.n), ok |-> TRUE, n |-> r.n]

\* "p.f = c; if p.f != nil { p.f.parent = p }"
adopt(s, p, f, c) == reparent(Set(s, p, f, c), c, p)

swapNodes(s, n, pred) ==
  LET isLeft == isLeftChild(s.h, pred)
      tmp    == s.h[pred]
      top(t) == Set(replaceNode(t, n, pred), pred, "color", t.h[n].color)
      \* tmp.parent == n: pred is a child of n
      near(t) == IF isLeft
                 THEN adopt(Set(t, pred, "left", n), pred, "right", t.h[n].right)
                 ELSE Set(adopt(t, pred, "left", t.h[n].left), pred, "right", n)
      \* otherwise pred hangs deeper in the left subtree of n
      far(t) == LET u == adopt(adopt(t, pred, "left", t.h[n].left),
                               pred, "right", t.h[n].right)
                IN  IF isLeft THEN Set(u, tmp.parent, "left", n)
                    ELSE Set(u, tmp.parent, "right", n)
      place(t, par) == adopt(adopt(Set(Set(t, n, "item", tmp.item), n, "parent", par),
                                   n, "left", tmp.left), n, "right", tmp.right)
      body(t) == IF tmp.parent = n THEN place(near(t), pred)
                 ELSE place(far(t), tmp.parent)
  IN  Set(body(top(doAssert(s, pred # n))), n, "color", tmp.color)

\* case 5, then case 6, of the delete rebalancing.
deleteCase5(s, n) ==
  LET case5(t) ==
        LET h == t.h
            p == h[n].parent
            sb == sibling(h, n)
        IN  IF n = h[p].left /\ getColor(h, sb) = black
               /\ getColor(h, h[sb].left) = red /\ getColor(h, h[sb].right) = black
            THEN rotateRight(Set(Set(t, sb, "color", red), h[sb].left, "color", black), sb)
            ELSE IF n = h[p].right /\ getColor(h, sb) = black
               /\ getColor(h, h[sb].right) = red /\ getColor(h, h[sb].left) = black
            THEN rotateLeft(Set(Set(t, sb, "color", red), h[sb].right, "color", black), sb)
            ELSE t
      paint(t) == Set(Set(t, sibling(t.h, n), "color", getColor(t.h, t.h[n].parent)),
                      t.h[n].parent, "color", black)
      \* doAssert(getColor(c) == red); c.color = black; rotate(n.parent)
      finish(t, c, left) ==
        IF c = Nil THEN doAssert(t, FALSE)
        ELSE LET u == Set(doAssert(t, t.h[c].color = red), c, "color", black)
             IN  IF left THEN rotateLeft(u, t.h[n].parent)
                 ELSE rotateRight(u, t.h[n].parent)
      case6(t) == IF n = t.h[t.h[n].parent].left
                  THEN finish(t, t.h[sibling(t.h, n)].right, TRUE)
                  ELSE finish(t, t.h[sibling(t.h, n)].left, FALSE)
  IN  case6(paint(case5(s)))

RECURSIVE deleteCase1(_, _)
deleteCase1(s, n) ==
  LET case2(t) ==
        IF getColor(t.h, sibling(t.h, n)) = red
        THEN LET u == Set(Set(t, t.h[n].parent, "color", red),
                          sibling(t.h, n), "color", black)
             IN  IF n = t.h[t.h[n].parent].left THEN rotateLeft(u, t.h[n].parent)
                 ELSE rotateRight(u, t.h[n].parent)
        ELSE t
      rest(t) ==
        LET h  == t.h
            p  == h[n].parent
            sb == sibling(h, n)
            nephewsBlack == getColor(h, sb) = black /\ getColor(h, h[sb].left) = black
                            /\ getColor(h, h[sb].right) = black
        IN  IF getColor(h, p) = black /\ nephewsBlack
            THEN deleteCase1(Set(t, sb, "color", red), p)
            ELSE IF getColor(h, p) = red /\ nephewsBlack
            THEN Set(Set(t, sb, "color", red), p, "color", black)
            ELSE deleteCase5(t, n)
  IN  IF s.h[n].parent = Nil THEN s ELSE rest(case2(s))

\* An unlink that splices a black node out without rebalancing.
unlink_NoFix(s, n) ==
  LET child == IF s.h[n].right = Nil THEN s.h[n].left ELSE s.h[n].right
      splice(t) == LET u == replaceNode(t, n, child)
                   IN  IF u.h[n].parent = Nil /\ child # Nil
                       THEN Set(u, child, "color", black) ELSE u
      caches(t) == IF t.count = 0 THEN [t EXCEPT !.minNode = Nil, !.maxNode = Nil]
                   ELSE LET u == IF t.minNode = n THEN recomputeMinNode(t) ELSE t
                        IN  IF u.maxNode = n THEN recomputeMaxNode(u) ELSE u
      less(t) == [t EXCEPT !.count = @ - 1]
  IN  caches(less(splice(s)))

\* doDelete once n has at most one child: rebalance, splice n out, fix the caches.
unlink(s, n) ==
  LET child == IF s.h[n].right = Nil THEN s.h[n].left ELSE s.h[n].right
      fix(t) == IF t.h[n].color = black
                THEN deleteCase1(Set(t, n, "color", getColor(t.h, child)), n) ELSE t
      splice(t) == LET u == replaceNode(t, n, child)
                   IN  IF u.h[n].parent = Nil /\ child # Nil
                       THEN Set(u, child, "color", black) ELSE u
      less(t) == [t EXCEPT !.count = @ - 1]
      caches(t) == IF t.count = 0 THEN [t EXCEPT !.minNode = Nil, !.maxNode = Nil]
                   ELSE LET u == IF t.minNode = n THEN recomputeMinNode(t) ELSE t
                        IN  IF u.maxNode = n THEN recomputeMaxNode(u) ELSE u
  IN  caches(less(splice(fix(doAssert(s, s.h[n].left = Nil \/ s.h[n].right = Nil)))))

\* Deleting by copying the predecessor's item into n and splicing the predecessor out.
doDelete_CopyItem(s, n) ==
  IF s.h[n].left # Nil /\ s.h[n].right # Nil
  THEN LET pred == maxPredecessor(s.h, n)
       IN  unlink(Set(s, n, "item", s.h[pred].item), pred)
  ELSE unlink(s, n)

doDelete(s, n) ==
  IF s.h[n].left # Nil /\ s.h[n].right # Nil
  THEN unlink(swapNodes(s, n, maxPredecessor(s.h, n)), n)
  ELSE unlink(s, n)

\* DeleteWithIterator: the assertion panics before anything is touched.
DeleteWithIterator(s, it) ==
  IF it = Nil \/ it = negativeLimitNode THEN [s EXCEPT !.panicked = TRUE]
  ELSE doDelete(s, it)

\* DeleteWithKey: [s, ok, n] with n the node handed to DeleteWithIterator.
DeleteWithKey(s, key) ==
  LET it == FindGE(s, key) IN
  IF it # Nil THEN [s |-> DeleteWithIterator(s, it), ok |-> TRUE, n |-> it]
  ELSE [s |-> s, ok |-> FALSE, n |-> Nil]


\* node.copy: clones the subtree under n; [h, n] with n the clone of the root.
RECURSIVE nodeCopy(_, _)
nodeCopy(h, n) ==
  LET copyN == NewId(h)
      h1 == h @@ (copyN :> h[n])
      l  == IF h[n].left # Nil THEN nodeCopy(h1, h[n].left) ELSE [h |-> h1, n |-> Nil]
      h2 == IF h[n].left # Nil
            THEN [l.h EXCEPT ![copyN].left = l.n, ![l.n].parent = copyN] ELSE l.h
      r  == IF h[n].right # Nil THEN nodeCopy(h2, h[n].right) ELSE [h |-> h2, n |-> Nil]
      h3 == IF h[n].right # Nil
            THEN [r.h EXCEPT ![copyN].right = r.n, ![r.n].parent = copyN] ELSE r.h
  IN  [h |-> h3, n |-> copyN]

\* The breadth-first pass of Copy that caches the clone's min and max nodes.
RECURSIVE copyScan(_, _, _, _)
copyScan(s, nodes, minItem, maxItem) ==
  IF nodes = <<>> THEN s
  ELSE LET n  == Head(nodes)
           s1 == IF s.h[n].item = minItem THEN [s EXCEPT !.minNode = n] ELSE s
           s2 == IF s1.h[n].item = maxItem THEN [s1 EXCEPT !.maxNode = n] ELSE s1
           q1 == IF s2.h[n].left # Nil THEN Append(Tail(nodes), s2.h[n].left)
                 ELSE Tail(nodes)
           q2 == IF s2.h[n].right # Nil THEN Append(q1, s2.h[n].right) ELSE q1
       IN  IF s2.minNode # Nil /\ s2.maxNode # Nil THEN s2
           ELSE copyScan(s2, q2, minItem, maxItem)

\* A Copy that clones the RBTree struct only and shares every node.
Copy_Alias(s) == s

\* RBTree.Copy of a non-empty tree (root.minNode is dereferenced at once).
Copy(s) ==
  LET minItem == s.h[s.minNode].item
      maxItem == s.h[s.maxNode].item
      c == nodeCopy(s.h, s.root)
      treeCopy == [h |-> c.h, root |-> c.n, minNode |-> Nil, maxNode |-> Nil,
                   count |-> s.count, panicked |-> FALSE]
  IN  copyScan(treeCopy, <<treeCopy.root>>, minItem, maxItem)

(***************************************************************************)
(* Views of a tree used to state properties.                               *)
(***************************************************************************)
RECURSIVE InOrder(_, _)
InOrder(h, n) ==
  IF n \notin DOMAIN h THEN <<>>
  ELSE InOrder(h, h[n].left) \o <<n>> \o InOrder(h, h[n].right)

Range(q) == {q[i] : i \in 1..Len(q)}

Nodes(h, t) == Range(InOrder(h, t.root))

Items(h, t) == LET o == InOrder(h, t.root) IN [i \in 1..Len(o) |-> h[o[i]].item]

KeysOf(h, t) == {h[n].item.Key : n \in Nodes(h, t)}

NodeAt(h, t, k) == CHOOSE n \in Nodes(h, t) : h[n].item.Key = k

\* Every pointer leads to a node of the heap and children point back to their parent.
WellFormed(h, t) ==
  /\ \A n \in DOMAIN h :
       /\ {h[n].left, h[n].right, h[n].parent} \subseteq DOMAIN h \cup {Nil}
       /\ h[n].left # Nil => h[h[n].left].parent = n
       /\ h[n].right # Nil => h[h[n].right].parent = n
  /\ {t.root, t.minNode, t.maxNode} \subseteq DOMAIN h \cup {Nil}
  /\ t.root # Nil => h[t.root].parent = Nil

(***************************************************************************)
(* Renumbering of the live nodes by in-order position: the nodes of the    *)
(* tree first, then those of the copy that the tree does not hold.  A      *)
(* pointer to a node that is no longer in either tree becomes Stale; the   *)
(* iterator is dropped when the node it points at is the one deleted.      *)
(***************************************************************************)
Stale == -2

LiveOrder(h, t, c) ==
  LET a == InOrder(h, t.root)
      b == InOrder(h, c.root)
  IN  a \o SelectSeq(b, LAMBDA n : n \notin Range(a))

NoCopy == [made |-> FALSE, root |-> Nil, minNode |-> Nil, maxNode |-> Nil, count |-> 0]
NoIter == [set |-> FALSE, node |-> Nil, item |-> Item(0, 0)]
\* What the last call was, on which tree, what it returned and whether it panicked.
\* swapped: a delete exchanged the doomed node with the node the iterator holds.
NoRet == [op |-> "none", on |-> "tree", ok |-> FALSE, panicked |-> FALSE,
          swapped |-> FALSE]

Result(op, on, ok, p) ==
  [op |-> op, on |-> on, ok |-> ok, panicked |-> p, swapped |-> FALSE]

SwapsIter(h, n, it) ==
  /\ n \in DOMAIN h
  /\ h[n].left # Nil
  /\ h[n].right # Nil
  /\ it.set
  /\ it.node = maxPredecessor(h, n)

Renumber(h, t, c, it, freed, r) ==
  LET o == LiveOrder(h, t, c)
      idx(n) == CHOOSE i \in 1..Len(o) : o[i] = n
      ren(p) == IF p \in Range(o) THEN idx(p) ELSE IF p <= 0 THEN p ELSE Stale
      renNode(nd) == [nd EXCEPT !.parent = ren(@), !.left = ren(@), !.right = ren(@)]
      renTree(x) == [x EXCEPT !.root = ren(@), !.minNode = ren(@), !.maxNode = ren(@)]
  IN  [heap |-> [i \in 1..Len(o) |-> renNode(h[o[i]])],
       tree |-> renTree(t),
       copyTree |-> renTree(c),
       iter |-> IF it.set /\ freed # Nil /\ it.node = freed THEN NoIter
                ELSE [it EXCEPT !.node = ren(@)],
       ret |-> r]

Commit(n) ==
  /\ heap' = n.heap
  /\ tree' = n.tree
  /\ copyTree' = n.copyTree
  /\ iter' = n.iter
  /\ ret' = n.ret

\* No MergeResults is running.
MergeIdle == UNCHANGED <<merged, mr>>

\* No CommitsAnalysis.Consume is running.
StatsIdle == UNCHANGED commits

StoreIdle ==
  UNCHANGED <<store, objects, commitDeps, people>> /\ MergeIdle /\ StatsIdle

FileIdle ==
  /\ UNCHANGED <<file, lines0, emitted, globalStatus, files, sideFiles>>
  /\ StoreIdle

(***************************************************************************)
(* Operations on the tree.                                                 *)
(***************************************************************************)
TreeInsert(k, v) ==
  LET r == Insert(On(heap, tree), Item(k, v)) IN
  /\ Commit(Renumber(r.s.h, TreeOf(r.s), copyTree, iter, Nil,
                     Result("Insert", "tree", r.ok, r.s.panicked)))
  /\ FileIdle

TreeDeleteWithKey(k) ==
  LET r == DeleteWithKey(On(heap, tree), k) IN
  /\ Commit(Renumber(r.s.h, TreeOf(r.s), copyTree, iter, r.n,
                     [Result("DeleteWithKey", "tree", r.ok, r.s.panicked)
                        EXCEPT !.swapped = SwapsIter(heap, r.n, iter)]))
  /\ FileIdle

TreeDeleteWithIterator(n) ==
  LET s == DeleteWithIterator(On(heap, tree), n) IN
  /\ Commit(Renumber(s.h, TreeOf(s), copyTree, iter, n,
                     [Result("DeleteWithIterator", "tree", TRUE, s.panicked)
                        EXCEPT !.swapped = SwapsIter(heap, n, iter)]))
  /\ FileIdle

\* An iterator is taken with FindGE or FindLE and remembers the item it showed.
Seek(n) ==
  [set |-> TRUE, node |-> n,
   item |-> IF n = Nil \/ n = negativeLimitNode THEN Item(0, 0) ELSE heap[n].item]

IterFindGE(k) ==
  /\ iter' = Seek(FindGE(On(heap, tree), k))
  /\ ret' = Result("Find", "tree", TRUE, FALSE)
  /\ UNCHANGED <<heap, tree, copyTree>>
  /\ FileIdle

IterFindLE(k) ==
  /\ iter' = Seek(FindLE(On(heap, tree), k))
  /\ ret' = Result("Find", "tree", TRUE, FALSE)
  /\ UNCHANGED <<heap, tree, copyTree>>
  /\ FileIdle

\* iter = iter.Next()
IterNext ==
  /\ iter.set
  /\ LET r == IteratorNext(On(heap, tree), iter.node) IN
       /\ iter' = IF r.panicked THEN iter ELSE Seek(r.n)
       /\ ret' = Result("Next", "tree", TRUE, r.panicked)
  /\ UNCHANGED <<heap, tree, copyTree>>
  /\ FileIdle

\* iter = iter.Prev()
IterPrev ==
  /\ iter.set
  /\ LET r == IteratorPrev(On(heap, tree), iter.node) IN
       /\ iter' = IF r.panicked THEN iter ELSE Seek(r.n)
       /\ ret' = Result("Prev", "tree", TRUE, r.panicked)
  /\ UNCHANGED <<heap, tree, copyTree>>
  /\ FileIdle

\* tree.DeleteWithIterator(iter), end-points included.
IterDelete ==
  /\ iter.set
  /\ LET s == DeleteWithIterator(On(heap, tree), iter.node) IN
       Commit(Renumber(s.h, TreeOf(s), copyTree, iter,
                       IF s.panicked THEN Nil ELSE iter.node,
                       Result("IterDelete", "tree", TRUE, s.panicked)))
  /\ FileIdle

\* Iterator.Item().Value = v through the held iterator.
IterSetValue(v) ==
  /\ iter.set
  /\ iter.node \in DOMAIN heap
  /\ heap' = [heap EXCEPT ![iter.node].item.Value = v]
  /\ iter' = [iter EXCEPT !.item.Value = v]
  /\ ret' = Result("SetValue", "tree", TRUE, FALSE)
  /\ UNCHANGED <<tree, copyTree>>
  /\ FileIdle

CopyOf(s) == [made |-> TRUE, root |-> s.root, minNode |-> s.minNode,
              maxNode |-> s.maxNode, count |-> s.count]

MakeCopy ==
  /\ ~copyTree.made
  /\ tree.root # Nil
  /\ LET c == Copy(On(heap, tree)) IN
     Commit(Renumber(c.h, tree, CopyOf(c), iter, Nil,
                     Result("Copy", "copy", TRUE, c.panicked)))
  /\ FileIdle

CopyInsert(k, v) ==
  /\ copyTree.made
  /\ LET r == Insert(On(heap, copyTree), Item(k, v)) IN
     Commit(Renumber(r.s.h, tree, CopyOf(r.s), iter, Nil,
                     Result("Insert", "copy", r.ok, r.s.panicked)))
  /\ FileIdle

CopyDeleteWithIterator(n) ==
  /\ copyTree.made
  /\ n \in Nodes(heap, copyTree)
  /\ LET s == DeleteWithIterator(On(heap, copyTree), n) IN
     Commit(Renumber(s.h, tree, CopyOf(s), iter, n,
                     Result("DeleteWithIterator", "copy", TRUE, s.panicked)))
  /\ FileIdle

\* The keys stay in strictly increasing order ("key to be changed with care").
KeepsOrder(h, t) ==
  LET q == Items(h, t) IN \A i \in 1..(Len(q) - 1) : q[i].Key < q[i + 1].Key

\* *iter.Item() = (k, v) on a node of the tree, or of the copy.
SetItem(on, n, k, v) ==
  LET t  == IF on = "tree" THEN tree ELSE copyTree
      h1 == [heap EXCEPT ![n].item = Item(k, v)]
  IN  /\ n \in Nodes(heap, t)
      /\ heap[n].item # Item(k, v)
      /\ KeepsOrder(h1, t)
      /\ heap' = h1
      /\ ret' = Result("SetItem", on, TRUE, FALSE)
      /\ UNCHANGED <<tree, copyTree, iter>>
      /\ FileIdle

\* iter.Item().Key = k on the tree (the key shift File.Update does in place).
TreeSetKey(n, k) == n \in DOMAIN heap /\ SetItem("tree", n, k, heap[n].item.Value)

\* iter.Item().Value = v on the copy.
CopySetValue(n, v) ==
  /\ copyTree.made
  /\ n \in DOMAIN heap
  /\ SetItem("copy", n, heap[n].item.Key, v)

(***************************************************************************)
(* burndown.go: packed provenance and the Status callback of the analyser.  *)
(***************************************************************************)
RECURSIVE bitOr(_, _)
bitOr(a, b) ==
  IF a = 0 THEN b
  ELSE IF b = 0 THEN a
  ELSE (IF a % 2 = 1 \/ b % 2 = 1 THEN 1 ELSE 0) + 2 * bitOr(a \div 2, b \div 2)

\* day | person << 14
packPersonWithDay(person, day) == bitOr(day, person * 16384)

\* value >> 14, value & 0x3FFF
unpackPersonWithDay(value) == <<value \div 16384, value % 16384>>

newGlobalCounter == [diffs |-> <<>>, lastDay |-> 0]

\* A counter that overwrites the cell instead of adding to it.
update_Overwrite(c, commitDay, updateDay, delta) ==
  LET row == IF commitDay \in DOMAIN c.diffs THEN c.diffs[commitDay] ELSE <<>>
  IN  [diffs |-> (commitDay :> ((updateDay :> delta) @@ row)) @@ c.diffs,
       lastDay |-> IF commitDay > c.lastDay THEN commitDay ELSE c.lastDay]

\* globalCounter.update: diffs[commitDay][updateDay] += delta
update(c, commitDay, updateDay, delta) ==
  LET row == IF commitDay \in DOMAIN c.diffs THEN c.diffs[commitDay] ELSE <<>>
      old == IF updateDay \in DOMAIN row THEN row[updateDay] ELSE 0
  IN  [diffs |-> (commitDay :> ((updateDay :> (old + delta)) @@ row)) @@ c.diffs,
       lastDay |-> IF commitDay > c.lastDay THEN commitDay ELSE c.lastDay]

updateStatus(c, commitDay, previousValue, delta) ==
  update(c, commitDay, unpackPersonWithDay(previousValue)[2], delta)

\* The reserved author id of a line without author information.
AuthorMissing == 131071

\* BurndownAnalysis.PeopleNumber
PeopleNumber == 2

\* diffs[j][i], zero where the map holds no entry
cell(diffs, j, i) ==
  IF j \in DOMAIN diffs /\ i \in DOMAIN diffs[j] THEN diffs[j][i] ELSE 0

\* the inner loop of groupByDay: group += c.diffs[j][i] for j in 0..day-1
RECURSIVE column(_, _, _)
column(diffs, i, day) ==
  IF day = 0 THEN 0 ELSE column(diffs, i, day - 1) + cell(diffs, day - 1, i)

\* the outer loop of groupByDay from introduction day i on
RECURSIVE bands(_, _, _, _, _, _)
bands(diffs, granularity, day, i, status, group) ==
  IF i >= day THEN <<status, group>>
  ELSE LET g == group + column(diffs, i, day)
       IN  IF i % granularity = granularity - 1
           THEN bands(diffs, granularity, day, i + 1,
                      [status EXCEPT ![(i \div granularity) + 1] = g], 0)
           ELSE bands(diffs, granularity, day, i + 1, status, g)

\* The loop without the trailing partial band.
row_NoTail(diffs, granularity0, day) ==
  LET granularity == IF granularity0 = 0 THEN 1 ELSE granularity0
      adjust == IF day % granularity # 0 THEN 1 ELSE 0
      status == [k \in 1..((day \div granularity) + adjust) |-> 0]
  IN  bands(diffs, granularity, day, 0, status, 0)[1]

\* the body shared by globalCounter.groupByDay and peopleCounter.groupByDay
row(diffs, granularity0, day) ==
  LET granularity == IF granularity0 = 0 THEN 1 ELSE granularity0
      adjust == IF day % granularity # 0 THEN 1 ELSE 0
      status == [k \in 1..((day \div granularity) + adjust) |-> 0]
      r == bands(diffs, granularity, day, 0, status, 0)
  IN  IF day % granularity # 0 THEN [r[1] EXCEPT ![Len(r[1])] = r[2]] ELSE r[1]

groupByDay_NoTail(c, granularity, day) == row_NoTail(c.diffs, granularity, day)

\* globalCounter.groupByDay
groupByDay(c, granularity, day) == row(c.diffs, granularity, day)

RECURSIVE times(_, _)
times(x, n) == IF n <= 0 THEN <<>> ELSE <<x>> \o times(x, n - 1)

\* the loop of globalCounter.matrix from day on
RECURSIVE samples(_, _, _, _, _, _)
samples(c, sampling, granularity, day, previousDay, result) ==
  IF day > c.lastDay THEN result
  ELSE LET delta == (day \div sampling) - (previousDay \div sampling)
       IN  IF delta > 0
           THEN samples(c, sampling, granularity, day + 1, day,
                        result \o times(groupByDay(c, granularity, day), delta))
           ELSE samples(c, sampling, granularity, day + 1, previousDay, result)

\* A matrix without the row of the day after the last one.
matrix_NoLast(c, sampling, granularity) ==
  samples(c, sampling, granularity, 0, 0, <<>>)

\* globalCounter.matrix
matrix(c, sampling, granularity) ==
  Append(samples(c, sampling, granularity, 0, 0, <<>>),
         groupByDay(c, granularity, c.lastDay + 1))

\* newPeopleCounter: one empty map per author
newPeopleCounter(n) == [diffs |-> [a \in 0..(n - 1) |-> <<>>], lastDay |-> 0]

\* A per-author counter that overwrites the cell instead of adding to it.
peopleUpdate_Overwrite(c, commitDay, author, updateDay, delta) ==
  LET u == update_Overwrite([diffs |-> c.diffs[author], lastDay |-> c.lastDay],
                            commitDay, updateDay, delta)
  IN  [diffs |-> [c.diffs EXCEPT ![author] = u.diffs], lastDay |-> u.lastDay]

\* peopleCounter.update: an author outside the slice is an index out of range
peopleUpdate(c, commitDay, author, updateDay, delta) ==
  LET u == update([diffs |-> c.diffs[author], lastDay |-> c.lastDay],
                  commitDay, updateDay, delta)
  IN  [diffs |-> [c.diffs EXCEPT ![author] = u.diffs], lastDay |-> u.lastDay]

\* peopleCounter.groupByDay: one row per author
peopleGroupByDay(c, granularity, day) ==
  [a \in DOMAIN c.diffs |-> row(c.diffs[a], granularity, day)]

RECURSIVE peopleSamples(_, _, _, _, _, _)
peopleSamples(c, sampling, granularity, day, previousDay, result) ==
  IF day > c.lastDay THEN result
  ELSE LET delta == (day \div sampling) - (previousDay \div sampling)
           status == peopleGroupByDay(c, granularity, day)
       IN  IF delta > 0
           THEN peopleSamples(c, sampling, granularity, day + 1, day,
                  [a \in DOMAIN c.diffs |-> result[a] \o times(status[a], delta)])
           ELSE peopleSamples(c, sampling, granularity, day + 1, previousDay, result)

\* peopleCounter.matrix: one plane per author
peopleMatrix(c, sampling, granularity) ==
  LET result == peopleSamples(c, sampling, granularity, 0, 0,
                              [a \in DOMAIN c.diffs |-> <<>>])
      status == peopleGroupByDay(c, granularity, c.lastDay + 1)
  IN  [a \in DOMAIN c.diffs |-> Append(result[a], status[a])]

\* BurndownAnalysis.updatePeople
updatePeople(c, commitDay, previousValue, delta) ==
  LET u == unpackPersonWithDay(previousValue)
  IN  IF u[1] = AuthorMissing THEN c
      ELSE peopleUpdate(c, commitDay, u[1], u[2], delta)

(***************************************************************************)
(* File: the run starts of one file, in key order, closed by the tombstone *)
(* at key Len.  A File is written here as the in-order items of its tree.  *)
(***************************************************************************)
TreeEnd == -1

FileValues == {packPersonWithDay(a, d) : a \in People, d \in Days}

\* {0 -> value, line_count -> TOMBSTONE}; with no lines the two keys coincide.
NewFile(value, length) ==
  IF length = 0 THEN <<Item(0, TreeEnd)>>
  ELSE <<Item(0, value), Item(length, TreeEnd)>>

\* File.Len: the key of the largest entry.
FileLen(f) == f[Len(f)].Key

hasKey(f, k) == \E i \in 1..Len(f) : f[i].Key = k

\* The value of the run that holds line pos (FindLE).
valueAt(f, pos) ==
  LET i == CHOOSE j \in 1..Len(f) :
             f[j].Key <= pos /\ (j = Len(f) \/ f[j + 1].Key > pos)
  IN  f[i].Value

\* primitive "insert key"
insertKey(f, k, v) ==
  IF hasKey(f, k) THEN f
  ELSE SelectSeq(f, LAMBDA e : e.Key < k) \o <<Item(k, v)>>
       \o SelectSeq(f, LAMBDA e : e.Key > k)

\* "The update splits any run containing position."
splitRun(f, pos) ==
  IF hasKey(f, pos) \/ pos > FileLen(f) THEN f
  ELSE insertKey(f, pos, valueAt(f, pos))

\* A delete that also takes the run start at pos + del.
deleteKeys_Through(f, pos, del) ==
  SelectSeq(f, LAMBDA e : e.Key < pos \/ e.Key > pos + del)

\* primitive "delete key", for the run starts in [pos, pos + del)
deleteKeys(f, pos, del) == SelectSeq(f, LAMBDA e : e.Key < pos \/ e.Key >= pos + del)

\* A shift that leaves every key where it was.
shiftKeys_None(f, from, by) == f

\* primitive "shift key", for every key >= from
shiftKeys(f, from, by) ==
  [i \in 1..Len(f) |->
     IF f[i].Key >= from THEN Item(f[i].Key + by, f[i].Value) ELSE f[i]]

\* An update that leaves neighbouring runs of one value side by side.
collapse_Keep(f) == f

\* "Any two adjacent non-tombstone entries that carry identical packed values
\* are collapsed to one."
RECURSIVE collapse(_)
collapse(f) ==
  IF Len(f) < 2 THEN f
  ELSE IF f[1].Value = f[2].Value /\ f[1].Value # TreeEnd
  THEN collapse(<<f[1]>> \o SubSeq(f, 3, Len(f)))
  ELSE <<f[1]>> \o collapse(Tail(f))

\* One callback per run that loses lines: (previous_value, -lines_removed).
removals(f, pos, del) ==
  LET idx == {i \in 1..(Len(f) - 1) : f[i].Key >= pos /\ f[i].Key < pos + del}
      ev == [i \in idx |-> [previousValue |-> f[i].Value,
                            delta |-> f[i].Key - f[i + 1].Key]]
  IN  [k \in 1..Cardinality(idx) |->
         ev[CHOOSE i \in idx : Cardinality({j \in idx : j < i}) = k - 1]]

\* One callback for the inserted lines: (new_value, +lines_inserted).
insertions(new_value, ins) ==
  IF ins = 0 THEN <<>> ELSE <<[previousValue |-> new_value, delta |-> ins]>>

\* File.Update: the new map and the callbacks it makes, in order.  With merge set
\* no callback is made ("In merge we don't update counters", change_merger.go).
Update(f, new_value, position, ins, del, merge) ==
  LET cut  == splitRun(splitRun(f, position), position + del)
      gone == shiftKeys(deleteKeys(cut, position, del), position + del, 0 - del)
      new  == IF ins = 0 THEN gone
              ELSE insertKey(shiftKeys(gone, position, ins), position, new_value)
  IN  [file |-> collapse(new),
       events |-> IF merge THEN <<>>
                  ELSE removals(cut, position, del) \o insertions(new_value, ins)]

\* Pre-conditions of Update; the degenerate Update(_, _, 0, 0) is a caller error.
Legal(f, position, ins, del) ==
  /\ position >= 0
  /\ position + del <= FileLen(f)
  /\ ins + del > 0

RECURSIVE notify(_, _, _)
notify(c, commitDay, events) ==
  IF events = <<>> THEN c
  ELSE notify(updateStatus(c, commitDay, events[1].previousValue, events[1].delta),
              commitDay, Tail(events))

\* every event reaches the observer of updatePeople as well
RECURSIVE notifyPeople(_, _, _)
notifyPeople(c, commitDay, events) ==
  IF events = <<>> THEN c
  ELSE notifyPeople(updatePeople(c, commitDay, events[1].previousValue, events[1].delta),
                    commitDay, Tail(events))

RECURSIVE sumDeltas(_)
sumDeltas(events) ==
  IF events = <<>> THEN 0 ELSE events[1].delta + sumDeltas(Tail(events))

InCount(c) ==
  \A cd \in DOMAIN c.diffs : \A ud \in DOMAIN c.diffs[cd] :
     c.diffs[cd][ud] \in (0 - MaxCount)..MaxCount

TreeIdle == UNCHANGED <<heap, tree, copyTree, iter>>

\* One call of File.Update with the analyser's commitDay set.
Apply(new_value, commitDay, position, ins, del, merge) ==
  /\ Legal(file, position, ins, del)
  /\ FileLen(file) + ins - del <= MaxLines
  /\ LET u == Update(file, new_value, position, ins, del, merge)
         g == notify(globalStatus, commitDay, u.events)
     IN  /\ InCount(g)
         /\ file' = u.file
         /\ emitted' = emitted + sumDeltas(u.events)
         /\ globalStatus' = g
  /\ ret' = [op |-> "Update", ins |-> ins, del |-> del, merge |-> merge]
  /\ UNCHANGED <<lines0, files, sideFiles>>
  /\ StoreIdle
  /\ TreeIdle

\* changeApplier: Update(packPersonWithDay(author, day), position, ins, del, false)
FileUpdate(author, day, position, ins, del) ==
  Apply(packPersonWithDay(author, day), day, position, ins, del, FALSE)

\* changeMerger: Update(timeVal, position, ins, del, true)
FileMerge(timeVal, commitDay, position, ins, del) ==
  Apply(timeVal, commitDay, position, ins, del, TRUE)

(***************************************************************************)
(* change_applier.go, change_merger.go: one change of a commit applied to   *)
(* a snapshot {path -> File}.  A diff edit is its type and the rune count   *)
(* of its text; an edit with no text is never pending.                      *)
(***************************************************************************)
Paths == {"a", "b"}

DiffEqual == "DiffEqual"
DiffInsert == "DiffInsert"
DiffDelete == "DiffDelete"

Edit(type, length) == [Type |-> type, Len |-> length]

\* diffmatchpatch.Diff{Text: ""}
NoPending == Edit(DiffEqual, 0)

FileDiffData(old, new, diffs) ==
  [OldLinesOfCode |-> old, NewLinesOfCode |-> new, Diffs |-> diffs]

\* delete(p.files, name)
Drop(fs, name) == [n \in DOMAIN fs \ {name} |-> fs[n]]

\* p.files[name] = f
Put(fs, name, f) == [n \in DOMAIN fs \cup {name} |-> IF n = name THEN f ELSE fs[n]]

\* The processor with the analyser's counter behind its statuses, and what the
\* handler has done so far: the deltas and the number of events its statuses
\* got, the Update calls it issued, its error, a panic.
Processor(fs, side, g) ==
  [files |-> fs, sideFiles |-> side, g |-> g, emitted |-> 0, events |-> 0,
   calls |-> <<>>, err |-> "", panicked |-> FALSE,
   people |-> newPeopleCounter(PeopleNumber),
   ids |-> [n \in DOMAIN fs |-> IF n = "a" THEN 1 ELSE 2],
   sideIds |-> [n \in DOMAIN side |-> IF n = "a" THEN 3 ELSE 4],
   fresh |-> 5]

Fail(p, err) == [p EXCEPT !.err = err]

\* NewFile reports its lines to the statuses (a file of 10 lines counts 10).
newFileEvents(value, length) ==
  IF length = 0 THEN <<>> ELSE <<[previousValue |-> value, delta |-> length]>>

\* file.Update(...) on p.files[name]; a call outside the pre-conditions of Update
\* is fatal.
callUpdate(p, name, commitDay, new_value, position, ins, del, merge) ==
  LET call == [value |-> new_value, position |-> position, ins |-> ins,
               del |-> del, merge |-> merge]
      q == [p EXCEPT !.calls = Append(@, call)]
  IN  IF ~Legal(p.files[name], position, ins, del) THEN [q EXCEPT !.panicked = TRUE]
      ELSE LET u == Update(p.files[name], new_value, position, ins, del, merge)
           IN  [q EXCEPT !.files[name] = u.file,
                         !.g = notify(@, commitDay, u.events),
                         !.people = notifyPeople(@, commitDay, u.events),
                         !.emitted = @ + sumDeltas(u.events),
                         !.events = @ + Len(u.events)]

\* handleInsertion without the check that the path is free.
handleInsertion_Replace(p, name, lines, author, day) ==
  LET value == packPersonWithDay(author, day)
      ev == newFileEvents(value, lines)
  IN  [p EXCEPT !.files = Put(@, name, NewFile(value, lines)),
                !.ids = Put(@, name, p.fresh),
                !.fresh = @ + 1,
                !.g = notify(@, day, ev),
                !.people = notifyPeople(@, day, ev),
                !.emitted = @ + sumDeltas(ev),
                !.events = @ + Len(ev)]

handleInsertion(p, name, lines, author, day) ==
  IF name \in DOMAIN p.files THEN Fail(p, "file already exists")
  ELSE LET value == packPersonWithDay(author, day)
           ev == newFileEvents(value, lines)
       IN  [p EXCEPT !.files = Put(@, name, NewFile(value, lines)),
                     !.ids = Put(@, name, p.fresh),
                     !.fresh = @ + 1,
                     !.g = notify(@, day, ev),
                     !.people = notifyPeople(@, day, ev),
                     !.emitted = @ + sumDeltas(ev),
                     !.events = @ + Len(ev)]

\* handleDelete without delete(p.files, name).
handleDelete_Keep(p, name, lines, author, day) ==
  IF name \notin DOMAIN p.files THEN Fail(p, "file doesn't exist")
  ELSE callUpdate(p, name, day, packPersonWithDay(author, day), 0, 0, lines, FALSE)

\* handleDelete that forgets the File without deleting its lines.
handleDelete_Silent(p, name, lines, author, day) ==
  IF name \notin DOMAIN p.files THEN Fail(p, "file doesn't exist")
  ELSE [p EXCEPT !.files = Drop(@, name), !.ids = Drop(@, name)]

handleDelete(p, name, lines, author, day) ==
  IF name \notin DOMAIN p.files THEN Fail(p, "file doesn't exist")
  ELSE LET q == callUpdate(p, name, day, packPersonWithDay(author, day),
                           0, 0, lines, FALSE)
       IN  IF q.panicked THEN q
           ELSE [q EXCEPT !.files = Drop(@, name), !.ids = Drop(@, name)]

\* handleRename without delete(p.files, from).
handleRename_Copy(p, from, to) ==
  IF from \notin DOMAIN p.files THEN Fail(p, "file does not exist")
  ELSE [p EXCEPT !.files = Put(@, to, p.files[from]),
                 !.ids = Put(@, to, p.ids[from])]

handleRename(p, from, to) ==
  IF from \notin DOMAIN p.files THEN Fail(p, "file does not exist")
  ELSE [p EXCEPT !.files = Drop(Put(@, to, p.files[from]), from),
                 !.ids = Drop(Put(@, to, p.ids[from]), from)]

\* The walk of handleModification: the processor, the running position and the
\* pending edit.
Walker(p) == [p |-> p, position |-> 0, pending |-> NoPending]

Stopped(w) == w.p.err # "" \/ w.p.panicked

\* changeApplier.handleModification, the closure apply
applierApply(w, name, edit, author, day) ==
  LET value == packPersonWithDay(author, day) IN
  IF edit.Type = DiffInsert
  THEN [w EXCEPT !.p = callUpdate(@, name, day, value, w.position, edit.Len, 0, FALSE),
                 !.position = @ + edit.Len]
  ELSE [w EXCEPT !.p = callUpdate(@, name, day, value, w.position, 0, edit.Len, FALSE)]

\* The body of the loop with an Equal edit that does not advance the position.
applierEdit_NoAdvance(w, name, edit, author, day) ==
  CASE edit.Type = DiffEqual ->
         LET v == IF w.pending.Len # 0
                  THEN [applierApply(w, name, w.pending, author, day)
                          EXCEPT !.pending = NoPending]
                  ELSE w
         IN  v
    [] edit.Type = DiffInsert ->
         IF w.pending.Len # 0
         THEN IF w.pending.Type = DiffInsert
              THEN [w EXCEPT !.p = Fail(@, "DiffInsert may not appear after DiffInsert")]
              ELSE [w EXCEPT !.p = callUpdate(@, name, day, packPersonWithDay(author, day),
                                              w.position, edit.Len, w.pending.Len, FALSE),
                             !.position = @ + edit.Len,
                             !.pending = NoPending]
         ELSE [w EXCEPT !.pending = edit]
    [] edit.Type = DiffDelete ->
         IF w.pending.Len # 0
         THEN [w EXCEPT !.p = Fail(@, "DiffDelete may not appear after DiffInsert/DiffDelete")]
         ELSE [w EXCEPT !.pending = edit]
    [] OTHER -> [w EXCEPT !.p = Fail(@, "diff operation is not supported")]

\* The loop body issuing a pending deletion and the insertion after it as two calls.
applierEdit_Split(w, name, edit, author, day) ==
  CASE edit.Type = DiffEqual ->
         LET v == IF w.pending.Len # 0
                  THEN [applierApply(w, name, w.pending, author, day)
                          EXCEPT !.pending = NoPending]
                  ELSE w
         IN  [v EXCEPT !.position = @ + edit.Len]
    [] edit.Type = DiffInsert ->
         IF w.pending.Len # 0
         THEN IF w.pending.Type = DiffInsert
              THEN [w EXCEPT !.p = Fail(@, "DiffInsert may not appear after DiffInsert")]
              ELSE LET d == applierApply(w, name, w.pending, author, day)
                   IN  IF Stopped(d) THEN d
                       ELSE [applierApply(d, name, edit, author, day)
                               EXCEPT !.pending = NoPending]
         ELSE [w EXCEPT !.pending = edit]
    [] edit.Type = DiffDelete ->
         IF w.pending.Len # 0
         THEN [w EXCEPT !.p = Fail(@, "DiffDelete may not appear after DiffInsert/DiffDelete")]
         ELSE [w EXCEPT !.pending = edit]
    [] OTHER -> [w EXCEPT !.p = Fail(@, "diff operation is not supported")]

\* changeApplier.handleModification, the body of the loop over thisDiffs.Diffs
applierEdit(w, name, edit, author, day) ==
  CASE edit.Type = DiffEqual ->
         LET v == IF w.pending.Len # 0
                  THEN [applierApply(w, name, w.pending, author, day)
                          EXCEPT !.pending = NoPending]
                  ELSE w
         IN  [v EXCEPT !.position = @ + edit.Len]
    [] edit.Type = DiffInsert ->
         IF w.pending.Len # 0
         THEN IF w.pending.Type = DiffInsert
              THEN [w EXCEPT !.p = Fail(@, "DiffInsert may not appear after DiffInsert")]
              ELSE [w EXCEPT !.p = callUpdate(@, name, day, packPersonWithDay(author, day),
                                              w.position, edit.Len, w.pending.Len, FALSE),
                             !.position = @ + edit.Len,
                             !.pending = NoPending]
         ELSE [w EXCEPT !.pending = edit]
    [] edit.Type = DiffDelete ->
         IF w.pending.Len # 0
         THEN [w EXCEPT !.p = Fail(@, "DiffDelete may not appear after DiffInsert/DiffDelete")]
         ELSE [w EXCEPT !.pending = edit]
    [] OTHER -> [w EXCEPT !.p = Fail(@, "diff operation is not supported")]

RECURSIVE applierWalk(_, _, _, _, _)
applierWalk(w, name, diffs, author, day) ==
  IF diffs = <<>> \/ Stopped(w) THEN w
  ELSE applierWalk(applierEdit(w, name, Head(diffs), author, day), name, Tail(diffs),
                   author, day)

\* handleModification without the flush of the pending edit after the loop.
handleModification_NoFlush(p, nameFrom, nameTo, lines, thisDiffs, author, day) ==
  IF nameFrom = "" THEN handleInsertion(p, nameTo, lines, author, day)
  ELSE
    LET r == IF nameFrom # nameTo THEN handleRename(p, nameFrom, nameTo) ELSE p
        walked(q) == applierWalk(Walker(q), nameTo, thisDiffs.Diffs, author, day)
        after(q) == IF q.err # "" \/ q.panicked THEN q
                    ELSE IF FileLen(q.files[nameTo]) # thisDiffs.NewLinesOfCode
                    THEN Fail(q, "regular after: internal integrity error dst")
                    ELSE q
    IN  IF r.err # "" THEN r
        ELSE IF nameTo \notin DOMAIN r.files THEN [r EXCEPT !.panicked = TRUE]
        ELSE IF FileLen(r.files[nameTo]) # thisDiffs.OldLinesOfCode
        THEN Fail(r, "regular before: internal integrity error src")
        ELSE after(walked(r).p)

\* changeApplier.handleModification; a path with no File gives a nil *File, whose
\* Len() dereferences it.
handleModification(p, nameFrom, nameTo, lines, thisDiffs, author, day) ==
  IF nameFrom = "" THEN handleInsertion(p, nameTo, lines, author, day)
  ELSE
    LET r == IF nameFrom # nameTo THEN handleRename(p, nameFrom, nameTo) ELSE p
        walked(q) == applierWalk(Walker(q), nameTo, thisDiffs.Diffs, author, day)
        flushed(w) == IF ~Stopped(w) /\ w.pending.Len # 0
                      THEN applierApply(w, nameTo, w.pending, author, day) ELSE w
        after(q) == IF q.err # "" \/ q.panicked THEN q
                    ELSE IF FileLen(q.files[nameTo]) # thisDiffs.NewLinesOfCode
                    THEN Fail(q, "regular after: internal integrity error dst")
                    ELSE q
    IN  IF r.err # "" THEN r
        ELSE IF nameTo \notin DOMAIN r.files THEN [r EXCEPT !.panicked = TRUE]
        ELSE IF FileLen(r.files[nameTo]) # thisDiffs.OldLinesOfCode
        THEN Fail(r, "regular before: internal integrity error src")
        ELSE after(flushed(walked(r)).p)

\* getTimeVal without the step to the predecessor of the tombstone.
getTimeVal_NoPrev(fs, name, position) ==
  IF name \notin DOMAIN fs THEN [timeVal |-> 0, err |-> "", panicked |-> TRUE]
  ELSE
    LET f == fs[name]
        le == {j \in 1..Len(f) : f[j].Key <= position}
    IN  IF le = {} THEN [timeVal |-> 0, err |-> "NegativeLimit", panicked |-> FALSE]
        ELSE LET i == CHOOSE j \in le : \A k \in le : k <= j
             IN  [timeVal |-> f[i].Value, err |-> "", panicked |-> FALSE]

\* getTimeVal: [timeVal, err, panicked].  The entry before the first one is
\* negativeLimitNode, whose item is the zero Item.
getTimeVal(fs, name, position) ==
  IF name \notin DOMAIN fs THEN [timeVal |-> 0, err |-> "", panicked |-> TRUE]
  ELSE
    LET f == fs[name]
        le == {j \in 1..Len(f) : f[j].Key <= position}
    IN  IF le = {} THEN [timeVal |-> 0, err |-> "NegativeLimit", panicked |-> FALSE]
        ELSE LET i == CHOOSE j \in le : \A k \in le : k <= j
                 prev == IF i = 1 THEN 0 ELSE f[i - 1].Value
             IN  [timeVal |-> IF f[i].Value = TreeEnd THEN prev ELSE f[i].Value,
                  err |-> "", panicked |-> FALSE]

\* The closure apply calling Update as the applier does, with merge = false.
mergerApply_Regular(w, name, edit) ==
  IF edit.Type = DiffInsert
  THEN LET t == getTimeVal(w.p.sideFiles, name, w.position) IN
       IF t.panicked \/ t.err # "" THEN [w EXCEPT !.p.panicked = TRUE]
       ELSE [w EXCEPT !.p = callUpdate(@, name, 0, t.timeVal, w.position, edit.Len, 0, FALSE),
                      !.position = @ + edit.Len]
  ELSE [w EXCEPT !.p = callUpdate(@, name, 0, 0, w.position, 0, edit.Len, FALSE)]

\* changeMerger.handleModification, the closure apply: an error of getTimeVal
\* panics here.
mergerApply(w, name, edit) ==
  IF edit.Type = DiffInsert
  THEN LET t == getTimeVal(w.p.sideFiles, name, w.position) IN
       IF t.panicked \/ t.err # "" THEN [w EXCEPT !.p.panicked = TRUE]
       ELSE [w EXCEPT !.p = callUpdate(@, name, 0, t.timeVal, w.position, edit.Len, 0, TRUE),
                      !.position = @ + edit.Len]
  ELSE [w EXCEPT !.p = callUpdate(@, name, 0, 0, w.position, 0, edit.Len, TRUE)]

\* The body of the loop with a Delete edit that replaces whatever is pending.
mergerEdit_Overwrite(w, name, edit) ==
  CASE edit.Type = DiffEqual ->
         LET v == IF w.pending.Len # 0
                  THEN [mergerApply(w, name, w.pending) EXCEPT !.pending = NoPending]
                  ELSE w
         IN  [v EXCEPT !.position = @ + edit.Len]
    [] edit.Type = DiffInsert ->
         IF w.pending.Len # 0
         THEN IF w.pending.Type = DiffInsert
              THEN [w EXCEPT !.p = Fail(@, "DiffInsert may not appear after DiffInsert")]
              ELSE LET t == getTimeVal(w.p.sideFiles, name, w.position) IN
                   IF t.panicked THEN [w EXCEPT !.p.panicked = TRUE]
                   ELSE IF t.err # "" THEN [w EXCEPT !.p = Fail(@, t.err)]
                   ELSE [w EXCEPT !.p = callUpdate(@, name, 0, t.timeVal, w.position,
                                                   edit.Len, w.pending.Len, TRUE),
                                  !.position = @ + edit.Len,
                                  !.pending = NoPending]
         ELSE [w EXCEPT !.pending = edit]
    [] edit.Type = DiffDelete ->
         [w EXCEPT !.pending = edit]
    [] OTHER -> [w EXCEPT !.p = Fail(@, "diff operation is not supported")]

\* changeMerger.handleModification, the body of the loop over thisDiffs.Diffs
mergerEdit(w, name, edit) ==
  CASE edit.Type = DiffEqual ->
         LET v == IF w.pending.Len # 0
                  THEN [mergerApply(w, name, w.pending) EXCEPT !.pending = NoPending]
                  ELSE w
         IN  [v EXCEPT !.position = @ + edit.Len]
    [] edit.Type = DiffInsert ->
         IF w.pending.Len # 0
         THEN IF w.pending.Type = DiffInsert
              THEN [w EXCEPT !.p = Fail(@, "DiffInsert may not appear after DiffInsert")]
              ELSE LET t == getTimeVal(w.p.sideFiles, name, w.position) IN
                   IF t.panicked THEN [w EXCEPT !.p.panicked = TRUE]
                   ELSE IF t.err # "" THEN [w EXCEPT !.p = Fail(@, t.err)]
                   ELSE [w EXCEPT !.p = callUpdate(@, name, 0, t.timeVal, w.position,
                                                   edit.Len, w.pending.Len, TRUE),
                                  !.position = @ + edit.Len,
                                  !.pending = NoPending]
         ELSE [w EXCEPT !.pending = edit]
    [] edit.Type = DiffDelete ->
         IF w.pending.Len # 0
         THEN [w EXCEPT !.p = Fail(@, "DiffDelete may not appear after DiffInsert/DiffDelete")]
         ELSE [w EXCEPT !.pending = edit]
    [] OTHER -> [w EXCEPT !.p = Fail(@, "diff operation is not supported")]

RECURSIVE mergerWalk(_, _, _)
mergerWalk(w, name, diffs) ==
  IF diffs = <<>> \/ Stopped(w) THEN w
  ELSE mergerWalk(mergerEdit(w, name, Head(diffs)), name, Tail(diffs))

\* changeMerger.handleModification without the check of OldLinesOfCode.
mergerModification_NoOldCheck(p, nameFrom, nameTo, thisDiffs) ==
  IF nameFrom = ""
  THEN IF nameFrom \notin DOMAIN p.sideFiles THEN Fail(p, "file doesn't exist")
       ELSE [p EXCEPT !.files = Put(@, nameFrom, p.sideFiles[nameFrom]),
                      !.ids = Put(@, nameFrom, p.sideIds[nameFrom])]
  ELSE
    LET r == IF nameFrom = nameTo THEN p
             ELSE IF nameTo \notin DOMAIN p.sideFiles
             THEN Fail(p, "file doesn't exist in side files")
             ELSE IF nameFrom \notin DOMAIN p.files THEN Fail(p, "file doesn't exist")
             ELSE [p EXCEPT !.files = Drop(Put(@, nameTo, p.files[nameFrom]), nameFrom),
                            !.ids = Drop(Put(@, nameTo, p.ids[nameFrom]), nameFrom)]
        flushed(w) == IF ~Stopped(w) /\ w.pending.Len # 0
                      THEN mergerApply(w, nameTo, w.pending) ELSE w
        after(q) == IF q.err # "" \/ q.panicked THEN q
                    ELSE IF FileLen(q.files[nameTo]) # thisDiffs.NewLinesOfCode
                    THEN Fail(q, "merge: internal integrity error dst")
                    ELSE q
    IN  IF r.err # "" THEN r
        ELSE IF nameTo \notin DOMAIN r.files THEN [r EXCEPT !.panicked = TRUE]
        ELSE after(flushed(mergerWalk(Walker(r), nameTo, thisDiffs.Diffs)).p)

\* changeMerger.handleModification
mergerModification(p, nameFrom, nameTo, thisDiffs) ==
  IF nameFrom = ""
  THEN IF nameFrom \notin DOMAIN p.sideFiles THEN Fail(p, "file doesn't exist")
       ELSE [p EXCEPT !.files = Put(@, nameFrom, p.sideFiles[nameFrom]),
                      !.ids = Put(@, nameFrom, p.sideIds[nameFrom])]
  ELSE
    LET r == IF nameFrom = nameTo THEN p
             ELSE IF nameTo \notin DOMAIN p.sideFiles
             THEN Fail(p, "file doesn't exist in side files")
             ELSE IF nameFrom \notin DOMAIN p.files THEN Fail(p, "file doesn't exist")
             ELSE [p EXCEPT !.files = Drop(Put(@, nameTo, p.files[nameFrom]), nameFrom),
                            !.ids = Drop(Put(@, nameTo, p.ids[nameFrom]), nameFrom)]
        flushed(w) == IF ~Stopped(w) /\ w.pending.Len # 0
                      THEN mergerApply(w, nameTo, w.pending) ELSE w
        after(q) == IF q.err # "" \/ q.panicked THEN q
                    ELSE IF FileLen(q.files[nameTo]) # thisDiffs.NewLinesOfCode
                    THEN Fail(q, "merge: internal integrity error dst")
                    ELSE q
    IN  IF r.err # "" THEN r
        ELSE IF nameTo \notin DOMAIN r.files THEN [r EXCEPT !.panicked = TRUE]
        ELSE IF FileLen(r.files[nameTo]) # thisDiffs.OldLinesOfCode
        THEN Fail(r, "before merge: internal integrity error src")
        ELSE after(flushed(mergerWalk(Walker(r), nameTo, thisDiffs.Diffs)).p)

\* changeMerger.processChange, case Insert
mergerInsert(p, nameTo) ==
  IF nameTo \notin DOMAIN p.sideFiles THEN Fail(p, "file not found in side files")
  ELSE [p EXCEPT !.files = Put(@, nameTo, p.sideFiles[nameTo]),
                 !.ids = Put(@, nameTo, p.sideIds[nameTo])]

\* changeMerger.processChange, case Delete
mergerDelete(p, nameFrom) ==
  IF nameFrom \notin DOMAIN p.files THEN Fail(p, "file doesn't exist")
  ELSE [p EXCEPT !.files = Drop(@, nameFrom), !.ids = Drop(@, nameFrom)]

\* BurndownAnalysis.Initialize: no snapshot stored, empty counters
NoStore ==
  /\ store = <<>>
  /\ objects = <<>>
  /\ commitDeps = <<>>
  /\ people = newPeopleCounter(PeopleNumber)
  /\ merged = <<>>
  /\ mr = <<>>
  /\ commits = <<>>

Init ==
  /\ heap = <<>>
  /\ tree = RBTree
  /\ copyTree = NoCopy
  /\ iter = NoIter
  /\ ret = NoRet
  /\ file = <<>>
  /\ lines0 = 0
  /\ emitted = 0
  /\ globalStatus = newGlobalCounter
  /\ files = <<>>
  /\ sideFiles = <<>>
  /\ NoStore

\* The tree under Insert and both deletes.
Next ==
  \/ \E k \in Keys : TreeInsert(k, 0)
  \/ \E k \in Keys : TreeDeleteWithKey(k)
  \/ \E n \in DOMAIN heap : TreeDeleteWithIterator(n)

Spec == Init /\ [][Next]_vars

\* The tree with stored values and one held iterator.
NextItems ==
  \/ \E k \in ItemKeys, v \in Values : TreeInsert(k, v)
  \/ \E k \in ItemKeys : TreeDeleteWithKey(k)
  \/ \E n \in DOMAIN heap : TreeDeleteWithIterator(n)
  \/ \E k \in ItemKeys : IterFindGE(k)
  \/ \E k \in ItemKeys : IterFindLE(k)
  \/ \E v \in Values : IterSetValue(v)

SpecItems == Init /\ [][NextItems]_vars

\* The tree and one iterator that walks it, end-points included.
NextIter ==
  \/ \E k \in ItemKeys : TreeInsert(k, 0)
  \/ \E n \in DOMAIN heap : TreeDeleteWithIterator(n)
  \/ \E k \in ItemKeys : IterFindGE(k)
  \/ \E k \in ItemKeys : IterFindLE(k)
  \/ IterNext
  \/ IterPrev
  \/ IterDelete

SpecIter == Init /\ [][NextIter]_vars

\* The tree and one copy of it, each changed after the copy was taken.
NextCopy ==
  \/ \E k \in CopyKeys : TreeInsert(k, 0)
  \/ \E n \in Nodes(heap, tree) : TreeDeleteWithIterator(n)
  \/ \E n \in DOMAIN heap, k \in CopyKeys : TreeSetKey(n, k)
  \/ MakeCopy
  \/ \E k \in CopyKeys : CopyInsert(k, 1)
  \/ \E n \in DOMAIN heap : CopyDeleteWithIterator(n)
  \/ \E n \in DOMAIN heap, v \in Values : CopySetValue(n, v)

SpecCopy == Init /\ [][NextCopy]_vars

\* One File from NewFile on, under regular and merge updates.
InitFile ==
  /\ heap = <<>>
  /\ tree = RBTree
  /\ copyTree = NoCopy
  /\ iter = NoIter
  /\ ret = NoRet
  /\ \E v \in FileValues, n \in 0..MaxLines : file = NewFile(v, n) /\ lines0 = n
  /\ emitted = 0
  /\ globalStatus = newGlobalCounter
  /\ files = <<>>
  /\ sideFiles = <<>>
  /\ NoStore

NextFile ==
  \/ \E a \in People, d \in Days, p \in 0..MaxLines, i \in 0..MaxLines,
        dl \in 0..MaxLines : FileUpdate(a, d, p, i, dl)
  \/ \E v \in FileValues, d \in Days, p \in 0..MaxLines, i \in 0..MaxLines,
        dl \in 0..MaxLines : FileMerge(v, d, p, i, dl)

SpecFile == InitFile /\ [][NextFile]_vars

(***************************************************************************)
(* The changes of single-parent commits applied one after another to the    *)
(* snapshot, each with its commit's author and day.  Nothing is processed   *)
(* after a change that failed.                                              *)
(***************************************************************************)
Authors == People

Edits == {Edit(t, l) : t \in {DiffEqual, DiffInsert, DiffDelete}, l \in 1..MaxLines}

RECURSIVE lengthOf(_, _)
lengthOf(diffs, types) ==
  IF diffs = <<>> THEN 0
  ELSE (IF diffs[1].Type \in types THEN diffs[1].Len ELSE 0) + lengthOf(Tail(diffs), types)

OldLength(diffs) == lengthOf(diffs, {DiffEqual, DiffDelete})

NewLength(diffs) == lengthOf(diffs, {DiffEqual, DiffInsert})

Scripts ==
  {d \in UNION {[1..n -> Edits] : n \in 0..MaxEdits} :
     OldLength(d) <= MaxLines /\ NewLength(d) <= MaxLines}

\* What the diff producer hands over for a blob pair: the old blob's line count,
\* the edits, and the new blob's line count as the producer counted it.
DiffData ==
  {FileDiffData(OldLength(d), NewLength(d) + e, d) : d \in Scripts, e \in {0, 1}}

\* The File whose lines carry the values ls, and the lines of a File.
FromLines(ls) ==
  LET starts == {i \in 1..Len(ls) : IF i = 1 THEN TRUE ELSE ls[i] # ls[i - 1]}
      nth(j) == CHOOSE k \in starts : Cardinality({m \in starts : m < k}) = j - 1
  IN  [j \in 1..Cardinality(starts) |-> Item(nth(j) - 1, ls[nth(j)])]
        \o <<Item(Len(ls), TreeEnd)>>

Lines(f) == [i \in 1..FileLen(f) |-> valueAt(f, i - 1)]

AllFiles ==
  {FromLines(ls) : ls \in UNION {[1..n -> {packPersonWithDay(a, d) : a \in People, d \in Days}]
                                   : n \in 0..MaxLines}}

RECURSIVE SumLen(_)
SumLen(fs) ==
  IF DOMAIN fs = {} THEN 0
  ELSE LET n == CHOOSE m \in DOMAIN fs : TRUE IN FileLen(fs[n]) + SumLen(Drop(fs, n))

\* The snapshots of a parent commit.
Snapshots ==
  {fs \in UNION {[P -> AllFiles] : P \in SUBSET Paths} : SumLen(fs) <= MaxLines}

RECURSIVE lineEvents(_)
lineEvents(fs) ==
  IF DOMAIN fs = {} THEN <<>>
  ELSE LET n == CHOOSE m \in DOMAIN fs : TRUE
       IN  [i \in 1..FileLen(fs[n]) |-> [previousValue |-> Lines(fs[n])[i], delta |-> 1]]
             \o lineEvents(Drop(fs, n))

\* The counter after the commits that made the snapshot.
CounterOf(fs) == notify(newGlobalCounter, 0, lineEvents(fs))

Running == ret.op = "none"

Processed(op, nameFrom, nameTo, lines, thisDiffs, author, day, p) ==
  [op |-> op, nameFrom |-> nameFrom, nameTo |-> nameTo, lines |-> lines,
   thisDiffs |-> thisDiffs, author |-> author, day |-> day,
   err |-> p.err, panicked |-> p.panicked, calls |-> p.calls, events |-> p.events]

Done(p, r) ==
  /\ files' = p.files
  /\ sideFiles' = p.sideFiles
  /\ emitted' = emitted + p.emitted
  /\ globalStatus' = p.g
  /\ ret' = r
  /\ UNCHANGED <<file, lines0>>
  /\ StoreIdle
  /\ TreeIdle

NoDiffs == FileDiffData(0, 0, <<>>)

\* changeApplier.processChange, case merkletrie.Insert
ApplierInsert(nameTo, lines, author, day) ==
  /\ Running
  /\ LET p == handleInsertion(Processor(files, sideFiles, globalStatus), nameTo, lines,
                              author, day)
     IN  Done(p, Processed("Insert", "", nameTo, lines, NoDiffs, author, day, p))

\* changeApplier.processChange, case merkletrie.Delete
ApplierDelete(nameFrom, lines, author, day) ==
  /\ Running
  /\ LET p == handleDelete(Processor(files, sideFiles, globalStatus), nameFrom, lines,
                           author, day)
     IN  Done(p, Processed("Delete", nameFrom, "", lines, NoDiffs, author, day, p))

\* changeApplier.processChange, case merkletrie.Modify
ApplierModify(nameFrom, nameTo, thisDiffs, author, day) ==
  /\ Running
  /\ LET lines == thisDiffs.NewLinesOfCode
         p == handleModification(Processor(files, sideFiles, globalStatus), nameFrom,
                                 nameTo, lines, thisDiffs, author, day)
     IN  Done(p, Processed("Modify", nameFrom, nameTo, lines, thisDiffs, author, day, p))

\* changeApplier.processChange, CountLines answers "binary"
ApplierBinary(action, nameFrom, nameTo) ==
  /\ Running
  /\ LET p == Processor(files, sideFiles, globalStatus)
     IN  Done(p, Processed("Binary", nameFrom, nameTo, 0, NoDiffs, 0, 0, p))

\* changeMerger.processChange, case merkletrie.Insert
MergerInsert(nameTo) ==
  /\ Running
  /\ LET p == mergerInsert(Processor(files, sideFiles, globalStatus), nameTo)
     IN  Done(p, Processed("MergeInsert", "", nameTo, 0, NoDiffs, 0, 0, p))

\* changeMerger.processChange, case merkletrie.Delete
MergerDelete(nameFrom) ==
  /\ Running
  /\ LET p == mergerDelete(Processor(files, sideFiles, globalStatus), nameFrom)
     IN  Done(p, Processed("MergeDelete", nameFrom, "", 0, NoDiffs, 0, 0, p))

\* changeMerger.processChange, case merkletrie.Modify
MergerModify(nameFrom, nameTo, thisDiffs) ==
  /\ Running
  /\ LET p == mergerModification(Processor(files, sideFiles, globalStatus), nameFrom,
                                 nameTo, thisDiffs)
     IN  Done(p, Processed("MergeModify", nameFrom, nameTo, 0, thisDiffs, 0, 0, p))

\* changeMerger.processChange, isBinary answers true
MergerBinary(action, nameFrom, nameTo) ==
  /\ Running
  /\ LET p == Processor(files, sideFiles, globalStatus)
     IN  Done(p, Processed("MergeBinary", nameFrom, nameTo, 0, NoDiffs, 0, 0, p))

\* A single-parent commit has no side snapshot.
NextChanges ==
  \/ Running /\ sideFiles = <<>>
       /\ \E n \in Paths, l \in 0..MaxLines, a \in Authors, d \in Days :
             ApplierInsert(n, l, a, d)
  \/ Running /\ sideFiles = <<>>
       /\ \E n \in Paths, l \in 0..MaxLines, a \in Authors, d \in Days :
             ApplierDelete(n, l, a, d)
  \/ Running /\ sideFiles = <<>>
       /\ \E f \in Paths \cup {""}, t \in Paths, dd \in DiffData, a \in Authors,
             d \in Days : ApplierModify(f, t, dd, a, d)
  \/ Running /\ sideFiles = <<>>
       /\ \E k \in {"Insert", "Delete", "Modify"}, f \in Paths \cup {""}, t \in Paths :
             ApplierBinary(k, f, t)
  \/ Running /\ \E n \in Paths : MergerInsert(n)
  \/ Running /\ \E n \in Paths : MergerDelete(n)
  \/ Running /\ \E f \in Paths \cup {""}, t \in Paths, dd \in DiffData :
                   MergerModify(f, t, dd)
  \/ Running /\ \E k \in {"Insert", "Delete", "Modify"}, f \in Paths \cup {""},
                   t \in Paths : MergerBinary(k, f, t)

\* The processor as Consume builds it: the copy of the parent's snapshot and,
\* for a merge, the copy of the second parent's.
InitChanges ==
  /\ heap = <<>>
  /\ tree = RBTree
  /\ copyTree = NoCopy
  /\ iter = NoIter
  /\ ret = NoRet
  /\ file = <<>>
  /\ lines0 = 0
  /\ emitted = 0
  /\ files \in Snapshots
  /\ sideFiles \in Snapshots
  /\ SumLen(files) + SumLen(sideFiles) <= MaxLines
  /\ globalStatus = CounterOf(files)
  /\ NoStore

SpecChanges == InitChanges /\ [][NextChanges]_vars

(***************************************************************************)
(* The counters under the Status events of the analyser: every event       *)
(* reaches updateStatus and updatePeople, and Finalize renders the         *)
(* matrices.                                                               *)
(***************************************************************************)
MaxDay == 2
MaxEvents == 3
MaxGranularity == 2

CounterDays == 0..MaxDay
CounterAuthors == (0..(PeopleNumber - 1)) \cup {AuthorMissing}
Deltas == {-1, 1}

NoCounterRet ==
  [op |-> "none", events |-> 0, missing |-> FALSE, granularity |-> 0,
   sampling |-> 0, day |-> 0, row |-> <<>>, rows |-> <<>>, planes |-> <<>>]

Feeding == ret.op \in {"none", "Status"}

\* one Status event, delivered to both observers of makeStatuses
StatusEvent(commitDay, author, updateDay, delta) ==
  LET previousValue == packPersonWithDay(author, updateDay)
  IN  /\ ret.events < MaxEvents
      /\ globalStatus' = updateStatus(globalStatus, commitDay, previousValue, delta)
      /\ people' = updatePeople(people, commitDay, previousValue, delta)
      /\ ret' = [ret EXCEPT !.op = "Status", !.events = @ + 1,
                            !.missing = @ \/ author = AuthorMissing]
      /\ UNCHANGED <<file, lines0, emitted, files, sideFiles>>
      /\ UNCHANGED <<store, objects, commitDeps>>
      /\ MergeIdle
      /\ StatsIdle
      /\ TreeIdle

\* globalCounter.groupByDay on the counter as it stands
GroupByDay(granularity, day) ==
  /\ ret' = [ret EXCEPT !.op = "groupByDay", !.granularity = granularity,
                        !.day = day,
                        !.row = groupByDay(globalStatus, granularity, day)]
  /\ FileIdle
  /\ TreeIdle

\* BurndownAnalysis.Finalize: both matrices
Finalize(sampling, granularity) ==
  /\ ret' = [ret EXCEPT !.op = "Finalize", !.granularity = granularity,
                        !.sampling = sampling,
                        !.rows = matrix(globalStatus, sampling, granularity),
                        !.planes = peopleMatrix(people, sampling, granularity)]
  /\ FileIdle
  /\ TreeIdle

InitCounters ==
  /\ heap = <<>>
  /\ tree = RBTree
  /\ copyTree = NoCopy
  /\ iter = NoIter
  /\ ret = NoCounterRet
  /\ file = NewFile(0, 0)
  /\ lines0 = 0
  /\ emitted = 0
  /\ globalStatus = newGlobalCounter
  /\ files = <<>>
  /\ sideFiles = <<>>
  /\ NoStore

NextCounters ==
  \/ Feeding /\ \E cd \in CounterDays, a \in CounterAuthors, ud \in CounterDays,
                   delta \in Deltas : StatusEvent(cd, a, ud, delta)
  \/ Feeding /\ \E g \in 1..MaxGranularity, d \in 0..(MaxDay + 2) : GroupByDay(g, d)
  \/ Feeding /\ \E g \in 1..MaxGranularity, sm \in 1..MaxGranularity :
                   sm <= g /\ Finalize(sm, g)

SpecCounters == InitCounters /\ [][NextCounters]_vars

(***************************************************************************)
(* packPersonWithDay and unpackPersonWithDay at the width of Go's int: a   *)
(* two's complement integer of w bits is written as the set of the         *)
(* positions of its one bits, position w - 1 being the sign.               *)
(***************************************************************************)
IntWidths == {32, 64}

\* v << n
shl(v, n, w) == {i + n : i \in v} \cap (0..(w - 1))

\* v >> n on a signed integer: the sign bit fills the vacated positions
sar(v, n, w) ==
  {i - n : i \in {k \in v : k >= n}}
    \cup (IF (w - 1) \in v THEN (w - n)..(w - 1) ELSE {})

\* A pack that shifts the author by 13 bits only.
packBits_Overlap(person, day, w) == day \cup shl(person, 13, w)

\* packPersonWithDay: result := day; result |= person << 14
packBits(person, day, w) == day \cup shl(person, 14, w)

\* unpackPersonWithDay: value >> 14, value & 0x3FFF
unpackBits(value, w) == <<sar(value, 14, w), value \cap (0..13)>>

\* the integer -1, the value getTimeVal tests for
TreeEndBits(w) == 0..(w - 1)

\* the integer written by a set of bit positions below the sign
RECURSIVE Num(_)
Num(v) ==
  IF v = {} THEN 0
  ELSE LET i == CHOOSE k \in v : TRUE IN 2 ^ i + Num(v \ {i})

\* author ids from 0 up to the largest int, among them AuthorMissing, the
\* largest id whose shift keeps the sign bit clear and the ids next to it
AuthorBits(w) ==
  { {}, {0}, {1}, {16}, 0..16, {17}, 0..17,
    0..(w - 16), {w - 15}, {0, w - 15}, 0..(w - 15), {w - 2}, 0..(w - 2) }

\* days within 0..16383
DayBits == { {}, {0}, {13}, 1..13, 0..13 }

NoPackRet(w, a, d, a2, d2) ==
  [op |-> "none", w |-> w, person |-> a, day |-> d, person2 |-> a2, day2 |-> d2,
   value |-> {}, value2 |-> {}, unpacked |-> <<{}, {}>>]

\* pack two pairs and unpack the first
PackUnpack ==
  /\ ret.op = "none"
  /\ ret' = [ret EXCEPT !.op = "pack",
                        !.value = packBits(ret.person, ret.day, ret.w),
                        !.value2 = packBits(ret.person2, ret.day2, ret.w),
                        !.unpacked = unpackBits(packBits(ret.person, ret.day, ret.w),
                                                ret.w)]
  /\ FileIdle
  /\ TreeIdle

InitPack ==
  /\ heap = <<>>
  /\ tree = RBTree
  /\ copyTree = NoCopy
  /\ iter = NoIter
  /\ \E w \in IntWidths : \E a \in AuthorBits(w), a2 \in AuthorBits(w) :
       \E d \in DayBits, d2 \in DayBits : ret = NoPackRet(w, a, d, a2, d2)
  /\ file = NewFile(0, 0)
  /\ lines0 = 0
  /\ emitted = 0
  /\ globalStatus = newGlobalCounter
  /\ files = <<>>
  /\ sideFiles = <<>>
  /\ NoStore

NextPack == PackUnpack

SpecPack == InitPack /\ [][NextPack]_vars

(***************************************************************************)
(* BurndownAnalysis.Consume over a history of commits.  The store maps a   *)
(* commit hash to its snapshot, a snapshot maps a path to a File object,   *)
(* and objects holds the Files by identity: a File stored for commit h     *)
(* under path n is the object h * IdBase + Rank(n), and the objects a      *)
(* processor works on before its result is stored are numbered below       *)
(* IdBase.                                                                  *)
(***************************************************************************)
MaxCommits == 3
IdBase == 10

Hashes == 1..MaxCommits

Rank(name) == IF name = "a" THEN 1 ELSE IF name = "b" THEN 2 ELSE 3

\* object.Change with what the blob cache and fileDiffs hold for it
Change(action, nameFrom, nameTo, lines, thisDiffs, binary) ==
  [action |-> action, nameFrom |-> nameFrom, nameTo |-> nameTo, lines |-> lines,
   thisDiffs |-> thisDiffs, binary |-> binary]

\* changeApplier.processChange
applierChange(p, change, author, day) ==
  CASE change.action = "Insert" ->
         IF change.binary THEN p
         ELSE handleInsertion(p, change.nameTo, change.lines, author, day)
    [] change.action = "Delete" ->
         IF change.binary THEN p
         ELSE handleDelete(p, change.nameFrom, change.lines, author, day)
    [] change.action = "Modify" ->
         IF change.binary THEN p
         ELSE handleModification(p, change.nameFrom, change.nameTo, change.lines,
                                 change.thisDiffs, author, day)
    [] OTHER -> Fail(p, "unknown action")

\* changeMerger.processChange
mergerChange(p, change) ==
  CASE change.action = "Insert" ->
         IF change.binary THEN p ELSE mergerInsert(p, change.nameTo)
    [] change.action = "Delete" ->
         IF change.binary THEN p ELSE mergerDelete(p, change.nameFrom)
    [] change.action = "Modify" ->
         IF change.binary THEN p
         ELSE mergerModification(p, change.nameFrom, change.nameTo, change.thisDiffs)
    [] OTHER -> Fail(p, "unknown action")

\* changeApplier.Process: the loop ends at the first error
RECURSIVE applierProcess(_, _, _, _)
applierProcess(p, changes, author, day) ==
  IF changes = <<>> \/ p.err # "" \/ p.panicked THEN p
  ELSE applierProcess(applierChange(p, Head(changes), author, day), Tail(changes),
                      author, day)

\* changeMerger.Process: the loop ends at the first error
RECURSIVE mergerProcess(_, _)
mergerProcess(p, changes) ==
  IF changes = <<>> \/ p.err # "" \/ p.panicked THEN p
  ELSE mergerProcess(mergerChange(p, Head(changes)), Tail(changes))

\* A copy that hands out the Files of the snapshot themselves.
copyFiles_Alias(fs, base) == fs

\* copyFiles: a new object per path, numbered from base
copyFiles(fs, base) == [n \in DOMAIN fs |-> base + Rank(n)]

\* the Files behind a map of object ids; a copy holds the value of its original
FilesOf(objs, fs, ids) ==
  [n \in DOMAIN ids |-> IF ids[n] \in DOMAIN objs THEN objs[ids[n]] ELSE objs[fs[n]]]

\* A cleanup that drops a parent's snapshot at its first child.
RECURSIVE cleanup_First(_, _, _)
cleanup_First(st, deps, parents) ==
  IF parents = <<>> THEN [store |-> st, commitDeps |-> deps]
  ELSE cleanup_First(Drop(st, Head(parents)), Drop(deps, Head(parents)),
                     Tail(parents))

\* cleanup: commitDeps[h]-- for every parent, in order; at zero both entries go
RECURSIVE cleanup(_, _, _)
cleanup(st, deps, parents) ==
  IF parents = <<>> THEN [store |-> st, commitDeps |-> deps]
  ELSE LET h == Head(parents)
           n == (IF h \in DOMAIN deps THEN deps[h] ELSE 0) - 1
       IN  IF n = 0
           THEN cleanup(Drop(st, h), Drop(deps, h), Tail(parents))
           ELSE cleanup(st, Put(deps, h, n), Tail(parents))

\* A Consume that returns no error where it should refuse the commit.
Refused_Silent(a, err) == [a EXCEPT !.ran = FALSE]

\* the analyser after a Consume that returned before a processor was built
Refused(a, err) == [a EXCEPT !.err = err, !.ran = FALSE]

\* the objects after the processor p ran: a File it shares with the store
\* holds what the processor left in it
Written(objs, p) ==
  [i \in DOMAIN objs |->
     IF \E n \in DOMAIN p.ids : p.ids[n] = i
     THEN p.files[CHOOSE n \in DOMAIN p.ids : p.ids[n] = i]
     ELSE objs[i]]

\* the objects a snapshot refers to
Referred(st) == UNION {{st[h][n] : n \in DOMAIN st[h]} : h \in DOMAIN st}

\* Process returned the files: analyser.files[commitHash] = files, then
\* cleanup; the objects no snapshot refers to are gone
Stored(a, commit, p) ==
  LET stored == [n \in DOMAIN p.ids |->
                   IF p.ids[n] < IdBase THEN commit.hash * IdBase + Rank(n)
                   ELSE p.ids[n]]
      objs == Written(a.objects, p) @@
                [i \in {stored[n] : n \in DOMAIN stored} |->
                   p.files[CHOOSE n \in DOMAIN stored : stored[n] = i]]
      c == cleanup(Put(a.store, commit.hash, stored), a.commitDeps, commit.parents)
  IN  [a EXCEPT !.store = c.store, !.commitDeps = c.commitDeps,
                !.objects = [i \in Referred(c.store) |-> objs[i]],
                !.globalStatus = p.g, !.people = p.people, !.ran = TRUE]

\* A Consume that stores the files and cleans up before it returns the error.
Aborted_Stored(a, commit, p) == [Stored(a, commit, p) EXCEPT !.err = p.err]

\* Process returned an error: Consume returns it
Aborted(a, commit, p) ==
  [a EXCEPT !.objects = Written(a.objects, p), !.globalStatus = p.g,
            !.people = p.people, !.err = p.err, !.ran = TRUE]

\* Consume from Process on
Processed2(a, commit, p) ==
  IF p.panicked
  THEN [a EXCEPT !.objects = Written(a.objects, p), !.globalStatus = p.g,
                 !.people = p.people, !.panicked = TRUE, !.ran = TRUE]
  ELSE IF p.err # "" THEN Aborted(a, commit, p)
  ELSE Stored(a, commit, p)

\* the analyser: its store, the Files, commitDeps and the counters
Analyser(st, objs, deps, g, pc) ==
  [store |-> st, objects |-> objs, commitDeps |-> deps, globalStatus |-> g,
   people |-> pc, err |-> "", panicked |-> FALSE, ran |-> FALSE]

\* the changeApplier of makeProcessor and the changeMerger of Consume
Processor2(a, ids, sideIds, fs, side) ==
  [Processor(FilesOf(a.objects, fs, ids), FilesOf(a.objects, side, sideIds),
             a.globalStatus)
     EXCEPT !.people = a.people, !.ids = ids, !.sideIds = sideIds,
            !.fresh = 2 * Rank("") + 1]

\* BurndownAnalysis.Consume
Consume(a, commit) ==
  LET parents == commit.parents
      missing(i) == parents[i] \notin DOMAIN a.store
  IN  CASE Len(parents) = 0 ->
             Processed2(a, commit,
               applierProcess(Processor2(a, <<>>, <<>>, <<>>, <<>>), commit.changes,
                              commit.author, commit.day))
        [] Len(parents) = 1 ->
             IF missing(1) THEN Refused(a, "commit wasn't processed")
             ELSE LET fs == a.store[parents[1]]
                  IN  Processed2(a, commit,
                        applierProcess(Processor2(a, copyFiles(fs, 0), <<>>, fs, <<>>),
                                       commit.changes, commit.author, commit.day))
        [] Len(parents) = 2 ->
             IF missing(1) \/ missing(2) THEN Refused(a, "commit wasn't processed")
             ELSE LET fs == a.store[parents[1]]
                      side == a.store[parents[2]]
                  IN  Processed2(a, commit,
                        mergerProcess(Processor2(a, copyFiles(fs, 0),
                                                 copyFiles(side, Rank("")), fs, side),
                                      commit.changes))
        [] OTHER -> Refused(a, "commit has more than 2 parents")

\* the changes of a commit: insertions, a modification, a modification whose
\* new length is wrong, a deletion, a rename, a binary blob
InsA == Change("Insert", "", "a", 2, NoDiffs, FALSE)
InsB == Change("Insert", "", "b", 1, NoDiffs, FALSE)
InsTen == Change("Insert", "", "a", 10, NoDiffs, FALSE)
BinB == Change("Insert", "", "b", 0, NoDiffs, TRUE)
DelA == Change("Delete", "a", "", 2, NoDiffs, FALSE)
ModA ==
  Change("Modify", "a", "a", 2,
         FileDiffData(2, 2, <<Edit(DiffEqual, 1), Edit(DiffDelete, 1),
                              Edit(DiffInsert, 1)>>), FALSE)
ModBad ==
  Change("Modify", "a", "a", 3,
         FileDiffData(2, 3, <<Edit(DiffDelete, 1), Edit(DiffEqual, 1)>>), FALSE)
RenAB ==
  Change("Modify", "a", "b", 2, FileDiffData(2, 2, <<Edit(DiffEqual, 2)>>), FALSE)

ChangeLists ==
  { <<>>, <<InsA>>, <<InsTen>>, <<InsA, InsB>>, <<ModA>>, <<InsB, ModBad>>,
    <<InsB, ModA>>, <<DelA>>, <<RenAB>>, <<BinB, ModA>> }

\* the parents of commit h: up to two different earlier commits, or three
\* parents, the last of them (hash 0) outside the history
ParentLists(h) ==
  {ps \in UNION {[1..n -> 1..(h - 1)] : n \in 0..2} :
     \A i, j \in DOMAIN ps : i # j => ps[i] # ps[j]}
    \cup (IF h >= 3 THEN {<<1, 2, 0>>} ELSE {})

Dags == {d \in [Hashes -> UNION {ParentLists(h) : h \in Hashes}] :
           \A h \in Hashes : d[h] \in ParentLists(h)}

\* the number of commits of the history that name h as a parent
Children(dag, h) ==
  Cardinality({c \in DOMAIN dag : \E i \in DOMAIN dag[c] : dag[c][i] = h})

NoConsumeRet(dag) ==
  [op |-> "none", dag |-> dag, log |-> <<>>, err |-> "", panicked |-> FALSE,
   ran |-> FALSE, granularity |-> 0, sampling |-> 0, rows |-> <<>>,
   planes |-> <<>>]

Consumed == {ret.log[i].hash : i \in DOMAIN ret.log}

\* the pipeline hands over commits until a Consume fails
Consuming == ret.op \in {"none", "Consume"} /\ ret.err = "" /\ ~ret.panicked

\* one Consume of the pipeline
ConsumeCommit(h, author, day, changes) ==
  LET commit == [hash |-> h, parents |-> ret.dag[h], author |-> author,
                 day |-> day, changes |-> changes]
  IN  /\ h \notin Consumed
      /\ \E a \in {Consume(Analyser(store, objects, commitDeps, globalStatus, people),
                            commit)} :
            /\ store' = a.store
            /\ objects' = a.objects
            /\ commitDeps' = a.commitDeps
            /\ globalStatus' = a.globalStatus
            /\ people' = a.people
            /\ ret' = [ret EXCEPT !.op = "Consume", !.log = Append(@, commit),
                                  !.err = a.err, !.panicked = a.panicked,
                                  !.ran = a.ran]
      /\ UNCHANGED <<file, lines0, emitted, files, sideFiles>>
      /\ MergeIdle
      /\ StatsIdle
      /\ TreeIdle

InitConsume ==
  /\ heap = <<>>
  /\ tree = RBTree
  /\ copyTree = NoCopy
  /\ iter = NoIter
  /\ file = NewFile(0, 0)
  /\ lines0 = 0
  /\ emitted = 0
  /\ globalStatus = newGlobalCounter
  /\ files = <<>>
  /\ sideFiles = <<>>
  /\ store = <<>>
  /\ objects = <<>>
  /\ people = newPeopleCounter(PeopleNumber)
  /\ merged = <<>>
  /\ mr = <<>>
  /\ commits = <<>>
  /\ \E dag \in Dags :
       /\ ret = NoConsumeRet(dag)
       /\ commitDeps = [h \in {k \in Hashes : Children(dag, k) > 0} |->
                          Children(dag, h)]

NextConsume ==
  \/ Consuming /\ \E h \in Hashes, a \in People, d \in Days, cs \in ChangeLists :
                     ConsumeCommit(h, a, d, cs)
  \/ Consuming /\ \E g \in 1..MaxGranularity, sm \in 1..MaxGranularity :
                     sm <= g /\ Finalize(sm, g)

SpecConsume == InitConsume /\ [][NextConsume]_vars


(***************************************************************************)
(* Red-black shape.                                                        *)
(***************************************************************************)
RECURSIVE BlackHeights(_, _)
BlackHeights(h, n) ==
  IF n = Nil THEN {1}
  ELSE {x + (IF h[n].color = black THEN 1 ELSE 0) :
          x \in BlackHeights(h, h[n].left) \cup BlackHeights(h, h[n].right)}

NoRedRed(h, t) ==
  \A n \in Nodes(h, t) :
    h[n].color = red =>
      /\ getColor(h, h[n].left) = black
      /\ getColor(h, h[n].right) = black

RedBlack(h, t) ==
  /\ getColor(h, t.root) = black
  /\ NoRedRed(h, t)
  /\ Cardinality(BlackHeights(h, t.root)) = 1

\* C1: after every Insert, DeleteWithKey and DeleteWithIterator, from the empty
\* tree on, the root is black, no red node has a red child and every root-to-nil
\* path holds the same number of black nodes.
C1_RedBlackInvariants == WellFormed(heap, tree) /\ RedBlack(heap, tree)

\* A delete has just left a tree of three black levels with a red inner node.
C1_Witness ==
  /\ ret.op \in {"DeleteWithIterator", "DeleteWithKey"}
  /\ ret.ok
  /\ tree.count >= 5
  /\ \E n \in DOMAIN heap : heap[n].color = red /\ heap[n].left # Nil


(***************************************************************************)
(* Insert and DeleteWithKey against the set of stored items.               *)
(***************************************************************************)
\* The items q with (k, v) put at its place in key order.
WithItem(q, k, v) ==
  LET lo == SelectSeq(q, LAMBDA i : i.Key < k)
      hi == SelectSeq(q, LAMBDA i : i.Key > k)
  IN  lo \o <<Item(k, v)>> \o hi

WithoutKey(q, k) == SelectSeq(q, LAMBDA i : i.Key # k)

InsertPost(k, v) ==
  IF k \in KeysOf(heap, tree)
  THEN /\ ~ret'.ok
       /\ Items(heap', tree') = Items(heap, tree)
       /\ tree'.count = tree.count
  ELSE /\ ret'.ok
       /\ Items(heap', tree') = WithItem(Items(heap, tree), k, v)
       /\ tree'.count = tree.count + 1

\* C9: Insert(k, v) on a tree without k adds (k, v), raises Len by one and returns
\* true; on a tree that holds k it returns false and leaves the items, the value
\* stored for k and Len as they were.
C9_InsertContract ==
  [][ret'.op = "Insert" =>
       \A k \in ItemKeys, v \in Values : TreeInsert(k, v) => InsertPost(k, v)]_vars

\* An Insert of a stored key has just been refused on a tree of three or more items.
C9_Witness ==
  /\ ret.op = "Insert"
  /\ ~ret.ok
  /\ tree.count >= 3
  /\ \E n \in DOMAIN heap : heap[n].item.Value = 1

DeleteWithKeyPost(k) ==
  IF k \in KeysOf(heap, tree)
  THEN /\ ret'.ok
       /\ Items(heap', tree') = WithoutKey(Items(heap, tree), k)
  ELSE /\ ~ret'.ok
       /\ Items(heap', tree') = Items(heap, tree)

\* C10: DeleteWithKey(k) deletes the item with key k and returns true iff there is
\* one; without such an item it returns false and removes nothing.
C10_DeleteWithKeyContract ==
  [][ret'.op = "DeleteWithKey" =>
       \A k \in Keys : TreeDeleteWithKey(k) => DeleteWithKeyPost(k)]_vars


(***************************************************************************)
(* FindGE and FindLE against the set of stored keys.                       *)
(***************************************************************************)
Probes == (-1)..(MaxKey + 1)

SetMin(S) == CHOOSE x \in S : \A y \in S : x <= y
SetMax(S) == CHOOSE x \in S : \A y \in S : x >= y

SmallestGE(h, t, k) ==
  LET c == {x \in KeysOf(h, t) : x >= k}
  IN  IF c = {} THEN Nil ELSE NodeAt(h, t, SetMin(c))

LargestLE(h, t, k) ==
  LET c == {x \in KeysOf(h, t) : x <= k}
  IN  IF c = {} THEN negativeLimitNode ELSE NodeAt(h, t, SetMax(c))

AtNode(it) == it.set /\ it.node # Nil /\ it.node # negativeLimitNode

\* C7: an iterator at a node stays valid across every Insert and every delete of
\* another node: it is at a node of the tree, shows the key and value it showed,
\* and Next and Prev from it are its in-order successor and predecessor.
C7_IteratorValid ==
  AtNode(iter) =>
    /\ WellFormed(heap, tree)
    /\ iter.node \in Nodes(heap, tree)
    /\ heap[iter.node].item = iter.item
    /\ doNext(heap, iter.node) = SmallestGE(heap, tree, iter.item.Key + 1)
    /\ doPrev(heap, iter.node) = LargestLE(heap, tree, iter.item.Key - 1)

\* The node just deleted had two children and was exchanged with the iterator's node.
C7_Witness ==
  /\ ret.op \in {"DeleteWithIterator", "DeleteWithKey"}
  /\ ret.swapped
  /\ AtNode(iter)
  /\ tree.count >= 2


(***************************************************************************)
(* Copy.                                                                   *)
(***************************************************************************)
CopyPost ==
  /\ Items(heap', copyTree') = Items(heap, tree)
  /\ Items(heap', tree') = Items(heap, tree)
  /\ copyTree'.count = tree.count
  /\ copyTree'.minNode \in Nodes(heap', copyTree')
  /\ copyTree'.maxNode \in Nodes(heap', copyTree')
  /\ heap'[copyTree'.minNode].item = heap[tree.minNode].item
  /\ heap'[copyTree'.maxNode].item = heap[tree.maxNode].item
  /\ Nodes(heap', copyTree') \cap Nodes(heap', tree') = {}

\* C6: Copy of a non-empty tree has the items, Len, Min and Max of the original and
\* shares no node with it; afterwards an Insert, a delete or an in-place change of an
\* item on one tree leaves the items of the other as they were.
C6_DeepCopy ==
  [][/\ ret'.op = "Copy" => CopyPost
     /\ (ret'.op # "Copy" /\ ret'.on = "tree") =>
          Items(heap', copyTree') = Items(heap, copyTree)
     /\ (ret'.op # "Copy" /\ ret'.on = "copy") =>
          Items(heap', tree') = Items(heap, tree)]_vars

\* Both trees were changed after the copy and now hold different items.
C6_Witness ==
  /\ copyTree.made
  /\ ret.op \in {"Insert", "DeleteWithIterator", "SetItem"}
  /\ tree.count >= 2
  /\ copyTree.count >= 2
  /\ copyTree.count # tree.count
  /\ \E n \in Nodes(heap, tree), m \in Nodes(heap, copyTree) :
       /\ heap[n].item.Key = heap[m].item.Key
       /\ heap[n].item.Value # heap[m].item.Value

(***************************************************************************)
(* File.                                                                   *)
(***************************************************************************)
\* C2: after every legal File.Update(new_value, position, ins, del, merge), Len is
\* the Len before the call plus ins minus del, for insertion, deletion and
\* replacement, with merge set or not.
C2_UpdateLen ==
  [][ret'.op = "Update" => FileLen(file') = FileLen(file) + ret'.ins - ret'.del]_vars

\* A replacement in merge mode that removed fewer lines than it added.
C2_Witness ==
  /\ ret.op = "Update"
  /\ ret.merge
  /\ ret.ins = 2
  /\ ret.del = 1
  /\ FileLen(file) = 3

Tombstones(f) == {i \in 1..Len(f) : f[i].Value = TreeEnd}

\* C3: after NewFile and after every legal Update the smallest key is 0 and exactly
\* one entry is the tombstone; it is the entry with the largest key, and that key
\* is Len.
C3_OneTombstone ==
  /\ Len(file) >= 1
  /\ file[1].Key = 0
  /\ \A i \in 1..(Len(file) - 1) : file[i].Key < file[i + 1].Key
  /\ Tombstones(file) = {Len(file)}
  /\ file[Len(file)].Key = FileLen(file)

\* Lines were appended to a file, which moved the tombstone, and the file still
\* has two runs.
C3_Witness ==
  /\ ret.op = "Update"
  /\ ret.ins > 0
  /\ ret.del = 0
  /\ FileLen(file) > lines0
  /\ Len(file) = 3

\* C4: after any legal Updates no two adjacent entries of the File carry the same
\* value.
C4_NoEqualNeighbours ==
  \A i \in 1..(Len(file) - 1) : file[i].Value # file[i + 1].Value

\* One line was inserted into a file of two lines and the three lines are one run:
\* the new line took the value of its neighbours.
C4_Witness ==
  /\ ret.op = "Update"
  /\ ret.ins = 1
  /\ ret.del = 0
  /\ FileLen(file) = 3
  /\ Len(file) = 2

RECURSIVE SumFn(_)
SumFn(f) ==
  IF DOMAIN f = {} THEN 0
  ELSE LET x == CHOOSE y \in DOMAIN f : TRUE
       IN  f[x] + SumFn([y \in DOMAIN f \ {x} |-> f[y]])

Total(c) == SumFn([cd \in DOMAIN c.diffs |-> SumFn(c.diffs[cd])])

FirstNode(h, t) ==
  LET q == InOrder(h, t.root) IN IF q = <<>> THEN Nil ELSE q[1]

\* The node with the largest key, NegativeLimit when the tree is empty (Max).
LastNode(h, t) ==
  LET q == InOrder(h, t.root) IN IF q = <<>> THEN negativeLimitNode ELSE q[Len(q)]

Untouched == heap' = heap /\ tree' = tree /\ iter' = iter

\* C11: Next on NegativeLimit is the minimum and Prev on Limit is the maximum; Next
\* on Limit, Prev on NegativeLimit and DeleteWithIterator on Limit or NegativeLimit
\* fail with the assertion and leave the tree as it was.
C11_EndPoints ==
  [][/\ (ret'.op = "Next" /\ iter.node = negativeLimitNode) =>
          (~ret'.panicked /\ iter'.node = FirstNode(heap, tree))
     /\ (ret'.op = "Prev" /\ iter.node = Nil) =>
          (~ret'.panicked /\ iter'.node = LastNode(heap, tree))
     /\ (ret'.op = "Next" /\ iter.node = Nil) => (ret'.panicked /\ Untouched)
     /\ (ret'.op = "Prev" /\ iter.node = negativeLimitNode) =>
          (ret'.panicked /\ Untouched)
     /\ (ret'.op = "IterDelete" /\ iter.node \in {Nil, negativeLimitNode}) =>
          (ret'.panicked /\ Untouched)]_vars

\* Next was called on Limit of a tree of three keys and panicked.
C11_Witness ==
  /\ ret.op = "Next"
  /\ ret.panicked
  /\ iter.set
  /\ iter.node = Nil
  /\ tree.count = 3

(***************************************************************************)
(* One change of a commit.                                                 *)
(***************************************************************************)
\* An edit script in which no Insert follows a pending Insert and no Delete
\* follows a pending edit; pending is "" when nothing is pending.
RECURSIVE Ordered(_, _)
Ordered(diffs, pending) ==
  IF diffs = <<>> THEN TRUE
  ELSE CASE diffs[1].Type = DiffEqual -> Ordered(Tail(diffs), "")
         [] diffs[1].Type = DiffInsert ->
              /\ pending # DiffInsert
              /\ Ordered(Tail(diffs), IF pending = DiffDelete THEN "" ELSE DiffInsert)
         [] diffs[1].Type = DiffDelete ->
              /\ pending = ""
              /\ Ordered(Tail(diffs), DiffDelete)

Modifies(r) == r.op \in {"Modify", "MergeModify"} /\ r.nameFrom # ""

\* The File the change is about, in a snapshot taken before the change.
Source(fs, r) == fs[r.nameFrom]

Succeeded(r) == r.err = "" /\ ~r.panicked

\* C12: a Modify of a File with Len = OldLinesOfCode by a well-ordered edit
\* script whose Equal+Delete lengths sum to OldLinesOfCode and whose Equal+Insert
\* lengths sum to NewLinesOfCode returns no error and leaves the File with
\* Len = NewLinesOfCode, in the applier and, when the side snapshot has a File at
\* the destination path, in the merger.
C12_ModifyLen ==
  [][(/\ Modifies(ret')
      /\ ret'.nameFrom \in DOMAIN files
      /\ ret'.op = "MergeModify" => ret'.nameTo \in DOMAIN sideFiles
      /\ FileLen(Source(files, ret')) = ret'.thisDiffs.OldLinesOfCode
      /\ OldLength(ret'.thisDiffs.Diffs) = ret'.thisDiffs.OldLinesOfCode
      /\ NewLength(ret'.thisDiffs.Diffs) = ret'.thisDiffs.NewLinesOfCode
      /\ Ordered(ret'.thisDiffs.Diffs, ""))
     => (/\ Succeeded(ret')
         /\ ret'.nameTo \in DOMAIN files'
         /\ FileLen(files'[ret'.nameTo]) = ret'.thisDiffs.NewLinesOfCode)]_vars

\* A merger Modify with a replacement and a trailing insertion has succeeded.
C12_Witness ==
  /\ ret.op = "MergeModify"
  /\ Succeeded(ret)
  /\ ret.nameFrom # ret.nameTo
  /\ ret.thisDiffs.Diffs = <<Edit(DiffDelete, 1), Edit(DiffInsert, 2)>>
  /\ FileLen(files[ret.nameTo]) = 2
  /\ Len(ret.calls) = 1

\* The lines an edit script makes of the lines old when inserted lines get value.
RECURSIVE Expected(_, _, _)
Expected(old, diffs, value) ==
  IF diffs = <<>> THEN old
  ELSE LET l == diffs[1].Len IN
       CASE diffs[1].Type = DiffEqual ->
              SubSeq(old, 1, l) \o Expected(SubSeq(old, l + 1, Len(old)), Tail(diffs), value)
         [] diffs[1].Type = DiffInsert ->
              [i \in 1..l |-> value] \o Expected(old, Tail(diffs), value)
         [] diffs[1].Type = DiffDelete ->
              Expected(SubSeq(old, l + 1, Len(old)), Tail(diffs), value)

\* C13: after a successful Modify of the applier, the lines of the new file that
\* fall in an Equal edit carry the value the corresponding old line had, and the
\* lines that fall in an Insert edit carry packPersonWithDay(author, day).
C13_Provenance ==
  [][(/\ Modifies(ret')
      /\ ret'.op = "Modify"
      /\ Succeeded(ret'))
     => (/\ ret'.nameFrom \in DOMAIN files
         /\ ret'.nameTo \in DOMAIN files'
         /\ Lines(files'[ret'.nameTo])
              = Expected(Lines(Source(files, ret')), ret'.thisDiffs.Diffs,
                         packPersonWithDay(ret'.author, ret'.day)))]_vars

\* Author 1 has inserted a line between two lines of author 0.
C13_Witness ==
  /\ ret.op = "Modify"
  /\ Succeeded(ret)
  /\ ret.nameFrom # ""
  /\ ret.author = 1
  /\ ret.thisDiffs.Diffs = <<Edit(DiffEqual, 1), Edit(DiffInsert, 1), Edit(DiffEqual, 1)>>
  /\ Lines(files[ret.nameTo])
       = <<packPersonWithDay(0, 0), packPersonWithDay(1, 0), packPersonWithDay(0, 0)>>

SrcErrors == {"regular before: internal integrity error src",
              "before merge: internal integrity error src"}

DstErrors == {"regular after: internal integrity error dst",
              "merge: internal integrity error dst"}

\* The Modify got as far as the File at the destination path: the source path
\* has a File and the merger's rename found the destination in the side snapshot.
Reached(fs, side, r) ==
  /\ Modifies(r)
  /\ r.nameFrom \in DOMAIN fs
  /\ (r.op = "MergeModify" /\ r.nameFrom # r.nameTo) => r.nameTo \in DOMAIN side

\* C14: in the applier and in the merger, a Modify of a File whose Len differs
\* from OldLinesOfCode returns an integrity error and has issued no File.Update;
\* a Modify whose File, after the last edit is flushed, has a Len that differs
\* from NewLinesOfCode returns an integrity error.
C14_IntegrityErrors ==
  [][/\ (/\ Reached(files, sideFiles, ret')
         /\ FileLen(Source(files, ret')) # ret'.thisDiffs.OldLinesOfCode)
        => (ret'.err \in SrcErrors /\ ret'.calls = <<>> /\ ~ret'.panicked)
     /\ (/\ Reached(files, sideFiles, ret')
         /\ FileLen(Source(files, ret')) = ret'.thisDiffs.OldLinesOfCode
         /\ Ordered(ret'.thisDiffs.Diffs, "")
         /\ ~ret'.panicked
         /\ FileLen(files'[ret'.nameTo]) # ret'.thisDiffs.NewLinesOfCode)
        => ret'.err \in DstErrors]_vars

\* The merger has applied an insertion and found Len different from
\* NewLinesOfCode.
C14_Witness ==
  /\ ret.op = "MergeModify"
  /\ ret.err \in DstErrors
  /\ Len(ret.calls) = 1
  /\ ret.calls[1].ins = 2
  /\ FileLen(files[ret.nameTo]) # ret.thisDiffs.NewLinesOfCode

\* The first edit of a script that arrives while it may not (an Insert while an
\* Insert is pending, a Delete while an edit is pending), "" if there is none,
\* and the number of Update calls the edits before it need.
RECURSIVE Offence(_, _)
Offence(diffs, pending) ==
  IF diffs = <<>> THEN [type |-> "", calls |-> 0]
  ELSE LET flushed == [Offence(Tail(diffs), "") EXCEPT !.calls = @ + 1] IN
       CASE diffs[1].Type = DiffEqual ->
              IF pending = "" THEN Offence(Tail(diffs), "") ELSE flushed
         [] diffs[1].Type = DiffInsert ->
              IF pending = DiffInsert THEN [type |-> DiffInsert, calls |-> 0]
              ELSE IF pending = DiffDelete THEN flushed
              ELSE Offence(Tail(diffs), DiffInsert)
         [] diffs[1].Type = DiffDelete ->
              IF pending # "" THEN [type |-> DiffDelete, calls |-> 0]
              ELSE Offence(Tail(diffs), DiffDelete)

OrderError(type) ==
  IF type = DiffInsert THEN "DiffInsert may not appear after DiffInsert"
  ELSE "DiffDelete may not appear after DiffInsert/DiffDelete"

\* C15: in the applier and in the merger, an Insert edit that arrives while an
\* Insert is pending, and a Delete edit that arrives while an edit is pending,
\* make the Modify return the error of that case; no Update is issued for that
\* edit or for the pending one.
C15_OrderErrors ==
  [][(/\ Reached(files, sideFiles, ret')
      /\ FileLen(Source(files, ret')) = ret'.thisDiffs.OldLinesOfCode
      /\ Offence(ret'.thisDiffs.Diffs, "").type # ""
      /\ ~ret'.panicked)
     => (/\ ret'.err = OrderError(Offence(ret'.thisDiffs.Diffs, "").type)
         /\ Len(ret'.calls) = Offence(ret'.thisDiffs.Diffs, "").calls)]_vars

\* The merger has met a Delete while a Delete was pending, after an Equal.
C15_Witness ==
  /\ ret.op = "MergeModify"
  /\ ret.thisDiffs.Diffs = <<Edit(DiffEqual, 1), Edit(DiffDelete, 1), Edit(DiffDelete, 1)>>
  /\ ret.err = OrderError(DiffDelete)
  /\ ret.calls = <<>>
  /\ FileLen(files[ret.nameTo]) = 3

Inserts(r) == r.op = "Insert" \/ (r.op = "Modify" /\ r.nameFrom = "")

\* C16: an Insert of the applier, or its Modify with an empty source name, on a
\* path that has a File returns an error and leaves the snapshot as it was; on
\* an absent path it adds a File of as many lines as the blob has, all carrying
\* packPersonWithDay(author, day), and leaves the other paths alone.
C16_Insertion ==
  [][Inserts(ret')
     => IF ret'.nameTo \in DOMAIN files
        THEN /\ ret'.err # ""
             /\ files' = files
             /\ ret'.calls = <<>>
        ELSE /\ Succeeded(ret')
             /\ DOMAIN files' = DOMAIN files \cup {ret'.nameTo}
             /\ \A n \in DOMAIN files : files'[n] = files[n]
             /\ FileLen(files'[ret'.nameTo]) = ret'.lines
             /\ \A i \in 1..ret'.lines :
                  Lines(files'[ret'.nameTo])[i] = packPersonWithDay(ret'.author, ret'.day)]_vars

\* A Modify with an empty source name has added a File of two lines of author 1
\* next to another File.
C16_Witness ==
  /\ ret.op = "Modify"
  /\ ret.nameFrom = ""
  /\ Succeeded(ret)
  /\ ret.lines = 2
  /\ DOMAIN files = Paths
  /\ Lines(files[ret.nameTo]) = <<packPersonWithDay(1, 0), packPersonWithDay(1, 0)>>

Renames(r) == r.op = "Modify" /\ r.nameFrom # "" /\ r.nameFrom # r.nameTo

\* C18: a Modify of the applier whose source and destination names differ
\* returns an error and leaves the snapshot as it was when the source path has
\* no File; otherwise the source path is gone, the other paths are untouched and
\* the destination path holds the File that was at the source path, unedited
\* when its Len is not OldLinesOfCode and edited by the script when the Modify
\* succeeds.
C18_Rename ==
  [][Renames(ret')
     => IF ret'.nameFrom \notin DOMAIN files
        THEN /\ ret'.err # ""
             /\ ret'.calls = <<>>
             /\ files' = files
        ELSE /\ DOMAIN files' = (DOMAIN files \ {ret'.nameFrom}) \cup {ret'.nameTo}
             /\ \A n \in DOMAIN files' \ {ret'.nameTo} : files'[n] = files[n]
             /\ ret'.err \in SrcErrors => files'[ret'.nameTo] = files[ret'.nameFrom]
             /\ Succeeded(ret')
                  => Lines(files'[ret'.nameTo])
                       = Expected(Lines(files[ret'.nameFrom]), ret'.thisDiffs.Diffs,
                                  packPersonWithDay(ret'.author, ret'.day))]_vars

\* The File at "a" has moved to "b" and got a line of author 1 appended.
C18_Witness ==
  /\ ret.op = "Modify"
  /\ ret.nameFrom = "a"
  /\ ret.nameTo = "b"
  /\ Succeeded(ret)
  /\ ret.thisDiffs.Diffs = <<Edit(DiffEqual, 1), Edit(DiffInsert, 1)>>
  /\ DOMAIN files = {"b"}
  /\ Lines(files["b"]) = <<packPersonWithDay(0, 0), packPersonWithDay(1, 0)>>

Merges(r) == r.op \in {"MergeInsert", "MergeDelete", "MergeModify", "MergeBinary"}

EntryLE(f, p) == CHOOSE j \in 1..Len(f) : f[j].Key <= p /\ (j = Len(f) \/ f[j + 1].Key > p)

RECURSIVE SumOf(_, _)
SumOf(calls, field) ==
  IF calls = <<>> THEN 0 ELSE calls[1][field] + SumOf(Tail(calls), field)

\* C20: every Update of a merge Modify is issued with merge = true; a call that
\* inserts lines at position p carries the value of the side file's entry with
\* the largest key <= p, or of that entry's predecessor when that entry is the
\* tombstone (0, the item of NegativeLimit, when the tombstone is the only
\* entry); a call that only deletes carries 0; and a Modify that succeeds has
\* issued all the insertions and deletions of its script.
C20_SideValue ==
  [][ret'.op = "MergeModify"
     => /\ \A i \in 1..Len(ret'.calls) :
             LET c == ret'.calls[i]
                 f == sideFiles[ret'.nameTo]
                 e == EntryLE(f, c.position)
             IN  /\ c.merge
                 /\ c.ins = 0 => c.value = 0
                 /\ c.ins > 0 =>
                      /\ ret'.nameTo \in DOMAIN sideFiles
                      /\ f[e].Value # TreeEnd => c.value = f[e].Value
                      /\ (f[e].Value = TreeEnd /\ e > 1) => c.value = f[e - 1].Value
                      /\ (f[e].Value = TreeEnd /\ e = 1) => c.value = 0
        /\ (Succeeded(ret') /\ ret'.nameFrom # "")
             => /\ SumOf(ret'.calls, "ins") = lengthOf(ret'.thisDiffs.Diffs, {DiffInsert})
                /\ SumOf(ret'.calls, "del") = lengthOf(ret'.thisDiffs.Diffs, {DiffDelete})]_vars

\* A line is appended in a merge to a File of two lines while the side file has
\* one line of author 1: the entry found is the tombstone, the value is the one
\* of its predecessor.
C20_Witness ==
  /\ ret.op = "MergeModify"
  /\ Succeeded(ret)
  /\ ret.thisDiffs.Diffs = <<Edit(DiffEqual, 2), Edit(DiffInsert, 1)>>
  /\ sideFiles[ret.nameTo] = NewFile(packPersonWithDay(1, 0), 1)
  /\ ret.calls = <<[value |-> packPersonWithDay(1, 0), position |-> 2, ins |-> 1,
                    del |-> 0, merge |-> TRUE]>>
  /\ Lines(files[ret.nameTo]) = <<0, 0, packPersonWithDay(1, 0)>>
(***************************************************************************)
(* Claims on the counters and their matrices.                              *)
(***************************************************************************)
\* the sum of diffs[k][i] over introduction days i in lo..hi-1 and commit
\* days k in 0..d-1
BandSum(diffs, lo, hi, d) ==
  SumFn([pr \in (0..(d - 1)) \X (lo..(hi - 1)) |-> cell(diffs, pr[1], pr[2])])

RowAsStated(bound(_, _, _)) ==
  ret.op = "groupByDay" =>
    LET g == ret.granularity
        d == ret.day
    IN  /\ Len(ret.row) = (d + g - 1) \div g
        /\ \A j \in 0..(Len(ret.row) - 1) :
             ret.row[j + 1] = BandSum(globalStatus.diffs, j * g, bound(j, g, d), d)

WholeBand(j, g, d) == (j + 1) * g
BandUpToDay(j, g, d) == IF (j + 1) * g < d THEN (j + 1) * g ELSE d

\* C26 as stated: the row groupByDay(g, d) has length ceil(d/g) and its j-th
\* entry is the sum of diffs[k][i] over the introduction days i of the whole
\* band j*g..(j+1)*g-1 and the commit days k below d.
C26_WholeBand == RowAsStated(WholeBand)

\* C26: the row groupByDay(g, d) has length ceil(d/g) and its j-th entry is
\* the sum of diffs[k][i] over the introduction days i of band j that lie
\* below d and the commit days k below d.
C26_Row == RowAsStated(BandUpToDay)

C26_Witness ==
  /\ ret.op = "groupByDay"
  /\ ret.granularity = 2
  /\ ret.day = 3
  /\ Len(ret.row) = 2
  /\ ret.row[1] # 0
  /\ ret.row[2] # 0

\* the days 1..last at which floor(d/sampling) increases, in increasing order
SampleDays(sampling, last) ==
  SelectSeq([d \in 1..last |-> d],
            LAMBDA d : d \div sampling > (d - 1) \div sampling)

\* C27: for 1 <= sampling <= granularity the matrix has floor(lastDay/sampling)
\* + 1 rows: the row groupByDay(granularity, d) of every day d in 1..lastDay at
\* which floor(d/sampling) increases, once each and in increasing d, and then
\* the row of day lastDay + 1.
C27_Matrix ==
  ret.op = "Finalize" =>
    LET sd == SampleDays(ret.sampling, globalStatus.lastDay)
    IN  /\ Len(ret.rows) = (globalStatus.lastDay \div ret.sampling) + 1
        /\ ret.rows =
             [n \in 1..(Len(sd) + 1) |->
                groupByDay(globalStatus, ret.granularity,
                           IF n <= Len(sd) THEN sd[n] ELSE globalStatus.lastDay + 1)]

C27_Witness ==
  /\ ret.op = "Finalize"
  /\ ret.sampling = 2
  /\ globalStatus.lastDay = 2
  /\ Len(ret.rows) = 2
  /\ ret.rows[1] # ret.rows[2]

\* C29: when no event carried AuthorMissing, every entry of GlobalHistory is
\* the sum over the authors of the same entry of their PeopleHistories planes,
\* and the planes have the shape of GlobalHistory.
C29_PlanesSum ==
  (ret.op = "Finalize" /\ ~ret.missing) =>
    /\ \A a \in DOMAIN ret.planes :
         /\ Len(ret.planes[a]) = Len(ret.rows)
         /\ \A r \in DOMAIN ret.rows : Len(ret.planes[a][r]) = Len(ret.rows[r])
    /\ \A r \in DOMAIN ret.rows : \A col \in DOMAIN ret.rows[r] :
         ret.rows[r][col] = SumFn([a \in DOMAIN ret.planes |-> ret.planes[a][r][col]])

C29_Witness ==
  /\ ret.op = "Finalize"
  /\ ~ret.missing
  /\ ret.events = 3
  /\ \E r \in DOMAIN ret.rows : \E col \in DOMAIN ret.rows[r] :
       /\ ret.planes[0][r][col] # 0
       /\ ret.planes[1][r][col] # 0


(***************************************************************************)
(* Claims on the packed provenance.                                        *)
(***************************************************************************)
\* the author ids whose shift by 14 keeps the sign bit clear: 0..2^(w-15)-1
Fits(person, w) == person \subseteq 0..(w - 16)

PackLaws(inRange(_, _)) ==
  (ret.op = "pack" /\ inRange(ret.person, ret.w) /\ inRange(ret.person2, ret.w)) =>
    /\ ret.unpacked = <<ret.person, ret.day>>
    /\ (<<ret.person, ret.day>> # <<ret.person2, ret.day2>> => ret.value # ret.value2)
    /\ ret.value # TreeEndBits(ret.w)
    /\ (ret.w = 32 /\ ret.person \subseteq 0..16) =>
          Num(ret.value) = packPersonWithDay(Num(ret.person), Num(ret.day))

NonNegative(person, w) == (w - 1) \notin person

\* C30 as stated: for every author id a >= 0 and every day d in 0..16383 the
\* pair is unpacked from its packed value, distinct pairs pack to distinct
\* values, and no packed value is the tombstone value -1.
C30_EveryAuthor == PackLaws(NonNegative)

\* C30: for every author id a in 0..2^(w-15)-1, w the width of int, and every
\* day d in 0..16383 the pair is unpacked from its packed value, distinct
\* pairs pack to distinct values, and no packed value is the tombstone value
\* -1; on these values the packed integer is day + author * 16384.
C30_RoundTrip == PackLaws(Fits)

C30_Witness ==
  /\ ret.op = "pack"
  /\ ret.w = 64
  /\ ret.person = 0..48
  /\ ret.day = 0..13
  /\ ret.person2 = 0..16
  /\ ret.unpacked = <<0..48, 0..13>>
  /\ ret.value = 0..62

(***************************************************************************)
(* Claims on Consume and the snapshot store.                               *)
(***************************************************************************)
\* the commit of the Consume that led to the next state
Last == ret'.log[Len(ret'.log)]

Consumes == ret'.op = "Consume" /\ Len(ret'.log) = Len(ret.log) + 1

\* change i of the merge commit c names a destination the side snapshot
\* lacks, and the changes before it went through
MissingSide(c, i) ==
  LET ch == c.changes[i]
      fs == store[c.parents[1]]
      side == store[c.parents[2]]
      a == Analyser(store, objects, commitDeps, globalStatus, people)
      p == Processor2(a, copyFiles(fs, 0), copyFiles(side, Rank("")), fs, side)
      q == mergerProcess(p, SubSeq(c.changes, 1, i - 1))
  IN  /\ ~ch.binary
      /\ \/ ch.action = "Insert"
         \/ ch.action = "Modify" /\ ch.nameFrom # ch.nameTo /\ ch.nameFrom # ""
      /\ q.err = ""
      /\ ~q.panicked
      /\ ch.nameTo \notin DOMAIN q.sideFiles

\* C21 as stated: when a change of a merge commit names a destination path
\* that the side snapshot lacks, Process returns no error, the commit is not
\* aborted (its snapshot is stored) and the changes after it are processed.
C21_MissingSideSkipped ==
  [][(/\ Consumes
      /\ Len(Last.parents) = 2
      /\ ret'.ran
      /\ \E i \in DOMAIN Last.changes : MissingSide(Last, i))
     => (ret'.err = "" /\ Last.hash \in DOMAIN store')]_vars

\* a parent of commit c has no snapshot in the store
ParentMissing(c) == \E i \in DOMAIN c.parents : c.parents[i] \notin DOMAIN store

\* C22: a Consume of a commit with more than two parents, or with a parent
\* whose snapshot is not in the store, returns an error without running an
\* applier or a merger (no File and no counter changes), and stores no
\* snapshot for the missing parent.
C22_Refused ==
  [][(Consumes /\ (Len(Last.parents) > 2 \/ ParentMissing(Last)))
     => (/\ ret'.err # ""
         /\ ~ret'.ran
         /\ objects' = objects
         /\ globalStatus' = globalStatus
         /\ people' = people
         /\ \A i \in DOMAIN Last.parents :
              Last.parents[i] \notin DOMAIN store =>
                Last.parents[i] \notin DOMAIN store')]_vars

C22_Witness ==
  /\ ret.op = "Consume"
  /\ Len(ret.log) = 2
  /\ ret.log[2].parents = <<1, 2>>
  /\ ret.log[1].hash = 1
  /\ ret.log[1].changes = <<InsA>>
  /\ ret.err = "commit wasn't processed"
  /\ DOMAIN store = {1}

\* C23: a Consume that returns an error leaves the store as it was: no
\* snapshot under the commit's hash, no snapshot evicted, commitDeps not
\* decremented, every stored File unchanged.
C23_ErrorKeepsStore ==
  [][(Consumes /\ ret'.err # "")
     => (/\ store' = store
         /\ Last.hash \notin DOMAIN store'
         /\ commitDeps' = commitDeps
         /\ objects' = objects)]_vars

C23_Witness ==
  /\ ret.op = "Consume"
  /\ ret.err = "regular after: internal integrity error dst"
  /\ Len(ret.log) = 2
  /\ ret.log[1].changes = <<InsA>>
  /\ ret.log[2].changes = <<InsB, ModBad>>
  /\ ret.log[2].parents = <<ret.log[1].hash>>
  /\ DOMAIN store = {ret.log[1].hash}
  /\ FileLen(objects[store[ret.log[1].hash]["a"]]) = 2

\* every commit of the log came after all its parents
ParentsFirst(log) ==
  \A i \in DOMAIN log : \A k \in DOMAIN log[i].parents :
    \E j \in 1..(i - 1) : log[j].hash = log[i].parents[k]

\* the consumed commits that are childless or still have a child to come
Awaited ==
  {h \in Consumed : \/ Children(ret.dag, h) = 0
                    \/ \E c \in Hashes \ Consumed :
                         \E i \in DOMAIN ret.dag[c] : ret.dag[c][i] = h}

\* C24: with parents consumed before their children and commitDeps starting
\* at the child counts, no Consume finds a parent's snapshot missing, and
\* after successful Consumes the store holds the snapshots of exactly the
\* consumed commits that are childless or have a child not yet consumed: a
\* snapshot stays from its own Consume to that of its last child, and at the
\* end only those of childless commits remain.
C24_Lifetime ==
  (ret.op = "Consume" /\ ParentsFirst(ret.log)) =>
    /\ ret.err # "commit wasn't processed"
    /\ (ret.err = "" /\ ~ret.panicked) => DOMAIN store = Awaited

C24_Witness ==
  /\ ret.op = "Consume"
  /\ ret.err = ""
  /\ Consumed = {1, 2, 3}
  /\ ParentsFirst(ret.log)
  /\ ret.dag[2] = <<1>>
  /\ ret.dag[3] = <<1>>
  /\ DOMAIN store = {2, 3}
  /\ "a" \in DOMAIN store[2]

\* C25: a Consume changes no File of a snapshot stored for another commit:
\* a snapshot that stays in the store maps the same paths to Files with the
\* same runs.
C25_OthersUntouched ==
  [][Consumes =>
       \A h \in (DOMAIN store \cap DOMAIN store') \ {Last.hash} :
         /\ DOMAIN store'[h] = DOMAIN store[h]
         /\ \A n \in DOMAIN store[h] :
              objects'[store'[h][n]] = objects[store[h][n]]]_vars

C25_Witness ==
  /\ ret.op = "Consume"
  /\ ret.err = ""
  /\ Len(ret.log) = 3
  /\ ret.log[1].changes = <<InsA>>
  /\ ret.log[1].author = 0
  /\ ret.log[2].parents = <<ret.log[1].hash>>
  /\ ret.log[3].parents = <<ret.log[1].hash>>
  /\ ret.log[2].changes = <<ModA>>
  /\ ret.log[3].changes = <<DelA>>
  /\ ret.log[2].author = 1
  /\ objects[store[ret.log[2].hash]["a"]] =
       <<Item(0, packPersonWithDay(0, 0)), Item(1, packPersonWithDay(1, 0)),
         Item(2, TreeEnd)>>
  /\ store[ret.log[3].hash] = <<>>

\* the history of one commit on day 0 by author 0 that inserts one file of
\* 10 lines, finalized with Granularity = 1 and Sampling = 1
OneFileOfTen ==
  /\ ret.op = "Finalize"
  /\ ret.granularity = 1
  /\ ret.sampling = 1
  /\ Len(ret.log) = 1
  /\ ret.log[1].parents = <<>>
  /\ ret.log[1].author = 0
  /\ ret.log[1].day = 0
  /\ ret.log[1].changes = <<InsTen>>

\* C28 as stated: that history finalizes to GlobalHistory = [[10], [10]] and
\* PeopleHistories[0] = [[10], [10]].
C28_TwoRows ==
  OneFileOfTen =>
    /\ ret.rows = <<<<10>>, <<10>>>>
    /\ ret.planes[0] = <<<<10>>, <<10>>>>

\* C28: that history finalizes to GlobalHistory = [[10]] and
\* PeopleHistories[0] = [[10]], the single row of day lastDay + 1 = 1.
C28_OneRow ==
  OneFileOfTen =>
    /\ ret.rows = <<<<10>>>>
    /\ ret.planes[0] = <<<<10>>>>

C28_Witness ==
  /\ OneFileOfTen
  /\ globalStatus.lastDay = 0
  /\ FileLen(objects[store[ret.log[1].hash]["a"]]) = 10
  /\ ret.rows[1][1] = 10

(***************************************************************************)
(* Claims on the cached end-points of the tree.                            *)
(***************************************************************************)
\* C33: after any sequence of Insert and delete operations Min() is the node with
\* the smallest key and Max() the node with the largest key; on the empty tree
\* Min() is Limit() and Max() is NegativeLimit().
C33_CachedEndPoints ==
  /\ Min(tree) = FirstNode(heap, tree)
  /\ Max(tree) = LastNode(heap, tree)
  /\ tree.count = 0 => (Min(tree) = Nil /\ Max(tree) = negativeLimitNode)

\* A delete left exactly the two smallest keys, so the node it removed held the
\* largest key and the cached maximum was recomputed.
C33_Witness ==
  /\ ret.op \in {"DeleteWithKey", "DeleteWithIterator"}
  /\ ret.ok
  /\ tree.count = 2
  /\ KeysOf(heap, tree) = {0, 1}
  /\ tree.minNode # tree.maxNode

(***************************************************************************)
(* Claims on the Update calls of one change.                               *)
(***************************************************************************)
\* A Modify whose two names are the same non-empty path, on a snapshot that has
\* no File under that path.
ModifiesAbsent ==
  /\ ret'.op \in {"Modify", "MergeModify"}
  /\ ret'.nameFrom # ""
  /\ ret'.nameFrom = ret'.nameTo
  /\ ret'.nameTo \notin DOMAIN files

\* C37: a Modify with identical non-empty names for a path that has no File in the
\* snapshot makes the applier and the merger return an error; Len of the absent
\* File is never read (the read of a nil File is the panic of the model) and no
\* File is updated.
C37_AbsentIsError ==
  [][ModifiesAbsent => (ret'.err # "" /\ ~ret'.panicked /\ ret'.calls = <<>>)]_vars

\* A Delete of the applier for a File that has as many lines as the deleted blob.
DeletesWhole ==
  /\ ret'.op = "Delete"
  /\ ret'.nameFrom \in DOMAIN files
  /\ ret'.lines = FileLen(files[ret'.nameFrom])

\* A Modify of the applier for a File with Len = OldLinesOfCode and an edit script
\* whose Equal+Delete lengths sum to OldLinesOfCode.
ModifiesWhole ==
  /\ ret'.op = "Modify"
  /\ ret'.nameFrom # ""
  /\ ret'.nameFrom \in DOMAIN files
  /\ FileLen(files[ret'.nameFrom]) = ret'.thisDiffs.OldLinesOfCode
  /\ OldLength(ret'.thisDiffs.Diffs) = ret'.thisDiffs.OldLinesOfCode

\* Every recorded Update was within the File at call time (no call was refused by
\* Legal), at a position >= 0, and inserted or deleted something.
LegalCalls(r) ==
  /\ ~r.panicked
  /\ \A i \in 1..Len(r.calls) :
        /\ r.calls[i].position >= 0
        /\ r.calls[i].ins + r.calls[i].del > 0

\* C34: every File.Update the applier issues on the Delete path and on the Modify
\* path is legal: 0 <= position, position + del <= Len at call time, and never
\* ins = 0 with del = 0, also for Files of zero lines.
C34_LegalUpdates ==
  [][(DeletesWhole \/ ModifiesWhole) => LegalCalls(ret')]_vars

\* A Modify in place (both names the same) of a File with Len = OldLinesOfCode,
\* in the applier, or in the merger when the side snapshot has the path.
ModifiesInPlace ==
  /\ ret'.op \in {"Modify", "MergeModify"}
  /\ ret'.nameFrom = ret'.nameTo
  /\ ret'.nameTo \in DOMAIN files
  /\ FileLen(files[ret'.nameTo]) = ret'.thisDiffs.OldLinesOfCode
  /\ ret'.op = "MergeModify" => ret'.nameTo \in DOMAIN sideFiles

\* position, pending and the calls made so far, after the first n edits of the
\* script of the step.
WalkedTo(n) ==
  LET p == Processor(files, sideFiles, globalStatus)
      d == SubSeq(ret'.thisDiffs.Diffs, 1, n)
  IN  IF ret'.op = "Modify"
      THEN applierWalk(Walker(p), ret'.nameTo, d, ret'.author, ret'.day)
      ELSE mergerWalk(Walker(p), ret'.nameTo, d)

\* Edit n is an Insert met while a Delete is pending.
InsertAfterDelete(n) ==
  /\ ret'.thisDiffs.Diffs[n].Type = DiffInsert
  /\ ~Stopped(WalkedTo(n - 1))
  /\ WalkedTo(n - 1).pending.Len # 0
  /\ WalkedTo(n - 1).pending.Type = DiffDelete

\* C32: a Delete of d lines immediately followed by an Insert of i lines makes
\* exactly one Update call, with ins = i and del = d at the current position;
\* afterwards position has advanced by i and the pending slot is empty.
C32_DeleteThenInsert ==
  [][ModifiesInPlace =>
       \A n \in 1..Len(ret'.thisDiffs.Diffs) :
         InsertAfterDelete(n) =>
           LET b == WalkedTo(n - 1)
               a == WalkedTo(n)
               k == Len(b.p.calls)
           IN  /\ Len(a.p.calls) = k + 1
               /\ SubSeq(ret'.calls, 1, k + 1) = a.p.calls
               /\ a.p.calls[k + 1].position = b.position
               /\ a.p.calls[k + 1].ins = ret'.thisDiffs.Diffs[n].Len
               /\ a.p.calls[k + 1].del = b.pending.Len
               /\ ~a.p.panicked => (/\ a.position = b.position + ret'.thisDiffs.Diffs[n].Len
                                    /\ a.pending = NoPending)]_vars

\* The applier replaced the second of two lines by two new ones: one call, with
\* del = 1 and ins = 2 at position 1.
C32_Witness ==
  /\ ret.op = "Modify"
  /\ Succeeded(ret)
  /\ ret.thisDiffs.Diffs = <<Edit(DiffEqual, 1), Edit(DiffDelete, 1), Edit(DiffInsert, 2)>>
  /\ Len(ret.calls) = 1
  /\ ret.calls[1].position = 1
  /\ ret.calls[1].ins = 2
  /\ ret.calls[1].del = 1
  /\ ~ret.calls[1].merge

\* The values of the non-tombstone entries stored in a File's map.
StoredValues(f) == {f[j].Value : j \in {k \in 1..Len(f) : f[k].Value # TreeEnd}}

\* getTimeVal answers with an error or with a value stored in the side file.
AnswersStored(fs, name, position) ==
  LET t == getTimeVal(fs, name, position)
  IN  t.err # "" \/ (~t.panicked /\ t.timeVal \in StoredValues(fs[name]))

\* C38: for every side file and every position >= 0 getTimeVal returns an error
\* or the value of a non-tombstone entry stored in the side file's map, never the
\* tombstone and never the item of NegativeLimit; so every inserting Update of a
\* merge Modify carries a value stored in the side file.
C38_ValueIsStored ==
  [][(ret'.op = "MergeModify" /\ ret'.nameFrom # "" /\ ret'.nameTo \in DOMAIN sideFiles)
       => /\ \A position \in 0..MaxLines : AnswersStored(sideFiles, ret'.nameTo, position)
          /\ \A i \in 1..Len(ret'.calls) :
                ret'.calls[i].ins > 0
                  => ret'.calls[i].value \in StoredValues(sideFiles[ret'.nameTo])]_vars

(***************************************************************************)
(* Claims on the last day of the counters.                                 *)
(***************************************************************************)
\* C39: after any sequence of status events the per-author counter's lastDay is
\* the global counter's lastDay, and every plane Finalize renders has as many rows
\* as the global matrix, also when events of AuthorMissing were dropped.
C39_SameLastDay ==
  /\ people.lastDay = globalStatus.lastDay
  /\ ret.op = "Finalize" =>
       \A a \in DOMAIN ret.planes : Len(ret.planes[a]) = Len(ret.rows)

(***************************************************************************)
(* Claims on Consume and the counters.                                     *)
(***************************************************************************)
\* C36: a Consume that returns an error after some of its changes were applied
\* leaves the global and the per-author counter with the values they had before
\* the call.
C36_ErrorKeepsCounters ==
  [][(Consumes /\ ret'.err # "")
     => (globalStatus' = globalStatus /\ people' = people)]_vars

\* The lines of all Files of the snapshot stored under h.
SnapshotLen(st, objs, h) == SumFn([n \in DOMAIN st[h] |-> FileLen(objs[st[h][n]])])

\* The processor Consume builds for a commit of at most one parent.
Before(c) ==
  LET a == Analyser(store, objects, commitDeps, globalStatus, people)
  IN  IF c.parents = <<>> THEN Processor2(a, <<>>, <<>>, <<>>, <<>>)
      ELSE Processor2(a, copyFiles(store[c.parents[1]], 0), <<>>,
                      store[c.parents[1]], <<>>)

\* A change as a tree diff yields it for the files q: a deleted blob has the lines
\* of its File, and a rename goes to a path that is free.
CoherentChange(q, ch) ==
  /\ (ch.action = "Delete" /\ ~ch.binary /\ ch.nameFrom \in DOMAIN q.files)
       => FileLen(q.files[ch.nameFrom]) = ch.lines
  /\ (ch.action = "Modify" /\ ~ch.binary /\ ch.nameFrom \notin {"", ch.nameTo})
       => ch.nameTo \notin DOMAIN q.files

Coherent(c) ==
  \A i \in DOMAIN c.changes :
    CoherentChange(applierProcess(Before(c), SubSeq(c.changes, 1, i - 1),
                                  c.author, c.day), c.changes[i])

\* The commit of the step continues a linear history: it is the first one and
\* has no parent, or its only parent is the commit consumed just before it.
LinearStep ==
  Last.parents = IF ret.log = <<>> THEN <<>> ELSE <<ret.log[Len(ret.log)].hash>>

\* The counter holds the lines of the snapshot the step starts from.
BalancedBefore ==
  IF ret.log = <<>> THEN Total(globalStatus) = 0
  ELSE /\ ret.log[Len(ret.log)].hash \in DOMAIN store
       /\ Total(globalStatus) =
            SnapshotLen(store, objects, ret.log[Len(ret.log)].hash)

MaxMerged == 2

\* people[key]: ptrs[1] < 0 (the person is in the second result only),
\* ptrs[2] < 0 (in the first only), or neither
Origins == {"first", "second", "both"}

\* bar1 and bar2 as far as MergeResults branches on them
MergeInputs ==
  {in \in [keys1 : SUBSET Paths, keys2 : SUBSET Paths, global : BOOLEAN,
           ptrs : UNION {[1..n -> Origins] : n \in 0..MaxMerged},
           people1 : BOOLEAN, people2 : BOOLEAN] :
     in.ptrs = <<>> => (~in.people1 /\ ~in.people2)}

NilMatrix == <<"nil">>

Torn == <<"torn">>

GlobalOf(i) == <<"GlobalHistory", i>>

FileOf(i, key) == <<"FileHistories", i, key>>

PersonOf(i, index) == <<"PeopleHistories", i, index>>

PeopleMatrixOf(i) == <<"PeopleMatrix", i>>

mergeMatrices(m1, m2) == <<"mergeMatrices", m1, m2>>

\* a place of the merged result
Loc(field, key, index) == [field |-> field, key |-> key, index |-> index]

\* two writes that may not overlap: any two writes of the map, or two writes of
\* the same field or slice element
Conflicts(l1, l2) ==
  l1.field = l2.field /\ (l1.field = "FileHistories" \/ l1 = l2)

Goroutine(kind, key, index) == [kind |-> kind, key |-> key, index |-> index]

MainGoroutine == Goroutine("main", "", 0)

\* the holder of a mutex nobody holds
NoGoroutine == Goroutine("", "", 0)

NoCur == [loc |-> Loc("", "", 0), value |-> NilMatrix, locked |-> FALSE, back |-> ""]

\* merged := BurndownResult{}
NoMerged(in) ==
  [GlobalHistory |-> NilMatrix, FileHistories |-> <<>>,
   PeopleHistories |-> <<>>, PeopleMatrix |-> NilMatrix]

NewMerge(in) ==
  [in |-> in, pc |-> "global", todo1 |-> {}, todo2 |-> {}, idx |-> 0, cur |-> NoCur,
   workers |-> <<>>, wg |-> 0, mutex |-> NoGoroutine, writing |-> {}, raced |-> FALSE]

\* A Lock that does not wait for the holder.
CanLock_Always(m) == TRUE

\* historyMutex.Lock() goes through when nobody holds the mutex
CanLock(m) == m.mutex = NoGoroutine

\* wg.Add(1); go func() {...}
Spawn(m, w, loc, value, locked) ==
  [m EXCEPT !.wg = @ + 1,
            !.workers = @ @@ (w :> [pc |-> IF locked THEN "lock" ELSE "begin",
                                    loc |-> loc, value |-> value, locked |-> locked])]

\* the first half of a write
BeginWrite(m, g, loc) ==
  [m EXCEPT !.writing = @ \cup {[proc |-> g, loc |-> loc]},
            !.raced = @ \/ \E x \in m.writing : Conflicts(x.loc, loc)]

\* the second half: the value is in place
Assign(r, loc, value) ==
  CASE loc.field = "GlobalHistory" -> [r EXCEPT !.GlobalHistory = value]
    [] loc.field = "FileHistories" -> [r EXCEPT !.FileHistories = Put(@, loc.key, value)]
    [] loc.field = "PeopleHistories" -> [r EXCEPT !.PeopleHistories[loc.index] = value]
    [] OTHER -> [r EXCEPT !.PeopleMatrix = value]

Landed(m, value) == IF m.raced THEN {value, Torn} ELSE {value}

OthersIdle ==
  /\ TreeIdle
  /\ UNCHANGED <<ret, file, lines0, emitted, globalStatus, files, sideFiles, store,
                 objects, commitDeps, people, commits>>

\* lines 28-38: the worker for GlobalHistory
MainGlobal ==
  /\ mr.pc = "global"
  /\ mr' = [(IF mr.in.global
             THEN Spawn(mr, Goroutine("global", "", 0), Loc("GlobalHistory", "", 0),
                        mergeMatrices(GlobalOf(1), GlobalOf(2)), FALSE)
             ELSE mr) EXCEPT !.pc = "files"]
  /\ UNCHANGED merged
  /\ OthersIdle

\* lines 39-41: merged.FileHistories = map[string][][]int64{}
MainFiles ==
  /\ mr.pc = "files"
  /\ mr' = IF mr.in.keys1 \cup mr.in.keys2 = {} THEN [mr EXCEPT !.pc = "people"]
           ELSE [mr EXCEPT !.pc = "loop1", !.todo1 = mr.in.keys1, !.todo2 = mr.in.keys2]
  /\ UNCHANGED merged
  /\ OthersIdle

\* lines 42-57: one round of the range over bar1.FileHistories, in any order
MainRange1 ==
  /\ mr.pc = "loop1"
  /\ IF mr.todo1 = {} THEN mr' = [mr EXCEPT !.pc = "loop2"]
     ELSE \E key \in mr.todo1 :
            mr' = IF key \in mr.in.keys2
                  THEN [Spawn(mr, Goroutine("file", key, 0), Loc("FileHistories", key, 0),
                              mergeMatrices(FileOf(1, key), FileOf(2, key)), TRUE)
                          EXCEPT !.todo1 = @ \ {key}]
                  ELSE [mr EXCEPT !.todo1 = @ \ {key}, !.pc = "lock",
                                  !.cur = [loc |-> Loc("FileHistories", key, 0),
                                           value |-> FileOf(1, key), locked |-> TRUE,
                                           back |-> "loop1"]]
  /\ UNCHANGED merged
  /\ OthersIdle

\* lines 58-64: one round of the range over bar2.FileHistories
MainRange2 ==
  /\ mr.pc = "loop2"
  /\ IF mr.todo2 = {} THEN mr' = [mr EXCEPT !.pc = "people"]
     ELSE \E key \in mr.todo2 :
            mr' = IF key \notin mr.in.keys1
                  THEN [mr EXCEPT !.todo2 = @ \ {key}, !.pc = "lock",
                                  !.cur = [loc |-> Loc("FileHistories", key, 0),
                                           value |-> FileOf(2, key), locked |-> TRUE,
                                           back |-> "loop2"]]
                  ELSE [mr EXCEPT !.todo2 = @ \ {key}]
  /\ UNCHANGED merged
  /\ OthersIdle

\* historyMutex.Lock() of the calling goroutine
MainLock ==
  /\ mr.pc = "lock"
  /\ CanLock(mr)
  /\ mr' = [mr EXCEPT !.mutex = MainGoroutine, !.pc = "begin"]
  /\ UNCHANGED merged
  /\ OthersIdle

\* a write of the calling goroutine: merged.FileHistories[key] = fh,
\* merged.PeopleHistories[i] = ...
MainBegin ==
  /\ mr.pc = "begin"
  /\ mr' = [BeginWrite(mr, MainGoroutine, mr.cur.loc) EXCEPT !.pc = "end"]
  /\ UNCHANGED merged
  /\ OthersIdle

MainEnd ==
  /\ mr.pc = "end"
  /\ \E v \in Landed(mr, mr.cur.value) : merged' = Assign(merged, mr.cur.loc, v)
  /\ mr' = [mr EXCEPT !.writing = @ \ {[proc |-> MainGoroutine, loc |-> mr.cur.loc]},
                      !.pc = IF mr.cur.locked THEN "unlock" ELSE mr.cur.back]
  /\ OthersIdle

\* historyMutex.Unlock() of the calling goroutine
MainUnlock ==
  /\ mr.pc = "unlock"
  /\ mr' = [mr EXCEPT !.mutex = NoGoroutine, !.pc = mr.cur.back]
  /\ UNCHANGED merged
  /\ OthersIdle

\* lines 66-67: merged.PeopleHistories = make([][][]int64, len(...))
MainPeople ==
  /\ mr.pc = "people"
  /\ IF mr.in.ptrs = <<>>
     THEN mr' = [mr EXCEPT !.pc = "wait"] /\ UNCHANGED merged
     ELSE /\ mr' = [mr EXCEPT !.pc = "ploop", !.idx = 1]
          /\ merged' = [merged EXCEPT !.PeopleHistories =
                                         [i \in DOMAIN mr.in.ptrs |-> NilMatrix]]
  /\ OthersIdle

\* lines 68-97: one round of the range over merged.reversedPeopleDict, and
\* lines 98-134 after it: the worker for PeopleMatrix
MainPerson ==
  /\ mr.pc = "ploop"
  /\ LET i == mr.idx
         direct(has, from) ==
           IF has THEN [mr EXCEPT !.idx = i + 1, !.pc = "begin",
                                  !.cur = [loc |-> Loc("PeopleHistories", "", i),
                                           value |-> PersonOf(from, i),
                                           locked |-> FALSE, back |-> "ploop"]]
           ELSE [mr EXCEPT !.idx = i + 1]
     IN  mr' = IF i > Len(mr.in.ptrs)
               THEN [Spawn(mr, Goroutine("matrix", "", 0), Loc("PeopleMatrix", "", 0),
                           mergeMatrices(PeopleMatrixOf(1), PeopleMatrixOf(2)), FALSE)
                       EXCEPT !.pc = "wait"]
               ELSE IF mr.in.ptrs[i] = "second" THEN direct(mr.in.people2, 2)
               ELSE IF mr.in.ptrs[i] = "first" THEN direct(mr.in.people1, 1)
               ELSE [Spawn(mr, Goroutine("person", "", i), Loc("PeopleHistories", "", i),
                           mergeMatrices(IF mr.in.people1 THEN PersonOf(1, i) ELSE NilMatrix,
                                         IF mr.in.people2 THEN PersonOf(2, i) ELSE NilMatrix),
                           FALSE)
                       EXCEPT !.idx = i + 1]
  /\ UNCHANGED merged
  /\ OthersIdle

\* line 136: wg.Wait() returns when the counter is zero
MainWait ==
  /\ mr.pc = "wait"
  /\ mr.wg = 0
  /\ mr' = [mr EXCEPT !.pc = "returned"]
  /\ UNCHANGED merged
  /\ OthersIdle

\* lines 47: historyMutex.Lock() of a worker
WorkerLock(w) ==
  /\ mr.workers[w].pc = "lock"
  /\ CanLock(mr)
  /\ mr' = [mr EXCEPT !.mutex = w, !.workers[w].pc = "begin"]
  /\ UNCHANGED merged
  /\ OthersIdle

\* the write of a worker
WorkerBegin(w) ==
  /\ mr.workers[w].pc = "begin"
  /\ mr' = [BeginWrite(mr, w, mr.workers[w].loc) EXCEPT !.workers[w].pc = "end"]
  /\ UNCHANGED merged
  /\ OthersIdle

\* ... and, without the mutex, the deferred wg.Done()
WorkerEnd(w) ==
  /\ mr.workers[w].pc = "end"
  /\ \E v \in Landed(mr, mr.workers[w].value) :
       merged' = Assign(merged, mr.workers[w].loc, v)
  /\ mr' = IF mr.workers[w].locked
           THEN [mr EXCEPT !.writing = @ \ {[proc |-> w, loc |-> mr.workers[w].loc]},
                           !.workers[w].pc = "unlock"]
           ELSE [mr EXCEPT !.writing = @ \ {[proc |-> w, loc |-> mr.workers[w].loc]},
                           !.workers[w].pc = "done", !.wg = @ - 1]
  /\ OthersIdle

\* the deferred historyMutex.Unlock(), then the deferred wg.Done()
WorkerUnlock(w) ==
  /\ mr.workers[w].pc = "unlock"
  /\ mr' = [mr EXCEPT !.mutex = NoGoroutine, !.workers[w].pc = "done", !.wg = @ - 1]
  /\ UNCHANGED merged
  /\ OthersIdle

InitMerge ==
  /\ heap = <<>>
  /\ tree = RBTree
  /\ copyTree = NoCopy
  /\ iter = NoIter
  /\ ret = NoRet
  /\ file = <<>>
  /\ lines0 = 0
  /\ emitted = 0
  /\ globalStatus = newGlobalCounter
  /\ files = <<>>
  /\ sideFiles = <<>>
  /\ store = <<>>
  /\ objects = <<>>
  /\ commitDeps = <<>>
  /\ people = newPeopleCounter(PeopleNumber)
  /\ commits = <<>>
  /\ \E in \in MergeInputs :
       /\ mr = NewMerge(in)
       /\ merged = NoMerged(in)

NextMerge ==
  \/ MainGlobal
  \/ MainFiles
  \/ MainRange1
  \/ MainRange2
  \/ MainLock
  \/ MainBegin
  \/ MainEnd
  \/ MainUnlock
  \/ MainPeople
  \/ MainPerson
  \/ MainWait
  \/ \E w \in DOMAIN mr.workers : WorkerLock(w)
  \/ \E w \in DOMAIN mr.workers : WorkerBegin(w)
  \/ \E w \in DOMAIN mr.workers : WorkerEnd(w)
  \/ \E w \in DOMAIN mr.workers : WorkerUnlock(w)

SpecMerge == InitMerge /\ [][NextMerge]_vars

(***************************************************************************)
(* Claims on MergeResults.                                                 *)
(***************************************************************************)
\* What MergeResults yields for its inputs, whatever the schedule.
ExpectedMerge(in) ==
  [GlobalHistory |-> IF in.global THEN mergeMatrices(GlobalOf(1), GlobalOf(2))
                     ELSE NilMatrix,
   FileHistories |->
     [key \in in.keys1 \cup in.keys2 |->
        IF key \in in.keys1 \cap in.keys2
        THEN mergeMatrices(FileOf(1, key), FileOf(2, key))
        ELSE IF key \in in.keys1 THEN FileOf(1, key) ELSE FileOf(2, key)],
   PeopleHistories |->
     [i \in DOMAIN in.ptrs |->
        IF in.ptrs[i] = "second"
        THEN (IF in.people2 THEN PersonOf(2, i) ELSE NilMatrix)
        ELSE IF in.ptrs[i] = "first"
        THEN (IF in.people1 THEN PersonOf(1, i) ELSE NilMatrix)
        ELSE mergeMatrices(IF in.people1 THEN PersonOf(1, i) ELSE NilMatrix,
                           IF in.people2 THEN PersonOf(2, i) ELSE NilMatrix)],
   PeopleMatrix |-> IF in.ptrs = <<>> THEN NilMatrix
                    ELSE mergeMatrices(PeopleMatrixOf(1), PeopleMatrixOf(2))]

\* C31: MergeResults returns only after every worker it started has finished;
\* no two goroutines write the same FileHistories key or PeopleHistories index at
\* the same time, every write to the FileHistories map is made by the holder of
\* the mutex, no write races with another, and the merged result is the same
\* for every interleaving.
C31_MergeIsDeterministic ==
  /\ ~mr.raced
  /\ \A x \in mr.writing : x.loc.field = "FileHistories" => mr.mutex = x.proc
  /\ \A x, y \in mr.writing : x # y => x.loc # y.loc
  /\ mr.pc = "returned" =>
       /\ \A w \in DOMAIN mr.workers : mr.workers[w].pc = "done"
       /\ merged = ExpectedMerge(mr.in)

\* MergeResults returned after six workers: GlobalHistory, two files and two
\* people present in both results, and PeopleMatrix.
C31_Witness ==
  /\ mr.pc = "returned"
  /\ mr.in.global
  /\ mr.in.keys1 = Paths
  /\ mr.in.keys2 = Paths
  /\ mr.in.ptrs = <<"both", "both">>
  /\ Cardinality(DOMAIN mr.workers) = 6
  /\ merged.FileHistories["a"] = mergeMatrices(FileOf(1, "a"), FileOf(2, "a"))

(***************************************************************************)
(* CommitsAnalysis.Consume: the line statistics of the files of a commit.  *)
(* The language of a file is left out.                                     *)
(***************************************************************************)
MaxStatCommits == 2

\* FileStat with its LineStats
FileStat(to, from, added, removed, changed) ==
  [ToName |-> to, FromName |-> from, Added |-> added, Removed |-> removed,
   Changed |-> changed]

\* The loop body that drops a pending removal at an Equal edit.
statsEdit_Lost(w, edit) ==
  CASE edit.Type = DiffEqual -> [w EXCEPT !.removedPending = 0]
    [] edit.Type = DiffInsert ->
         IF w.removedPending > edit.Len
         THEN [w EXCEPT !.cf.Changed = @ + edit.Len,
                        !.cf.Removed = @ + (w.removedPending - edit.Len),
                        !.removedPending = 0]
         ELSE [w EXCEPT !.cf.Changed = @ + w.removedPending,
                        !.cf.Added = @ + (edit.Len - w.removedPending),
                        !.removedPending = 0]
    [] edit.Type = DiffDelete -> [w EXCEPT !.removedPending = edit.Len]
    [] OTHER -> w

\* case merkletrie.Modify, the body of the loop over thisDiffs.Diffs
statsEdit(w, edit) ==
  CASE edit.Type = DiffEqual ->
         [w EXCEPT !.cf.Removed = IF w.removedPending > 0 THEN @ + w.removedPending ELSE @,
                   !.removedPending = 0]
    [] edit.Type = DiffInsert ->
         IF w.removedPending > edit.Len
         THEN [w EXCEPT !.cf.Changed = @ + edit.Len,
                        !.cf.Removed = @ + (w.removedPending - edit.Len),
                        !.removedPending = 0]
         ELSE [w EXCEPT !.cf.Changed = @ + w.removedPending,
                        !.cf.Added = @ + (edit.Len - w.removedPending),
                        !.removedPending = 0]
    [] edit.Type = DiffDelete -> [w EXCEPT !.removedPending = edit.Len]
    [] OTHER -> w

RECURSIVE statsWalk(_, _)
statsWalk(w, diffs) ==
  IF diffs = <<>> THEN w ELSE statsWalk(statsEdit(w, Head(diffs)), Tail(diffs))

\* case merkletrie.Modify
statsModify(cf, diffs) ==
  LET w == statsWalk([cf |-> cf, removedPending |-> 0], diffs)
  IN  IF w.removedPending > 0 THEN [w.cf EXCEPT !.Removed = @ + w.removedPending]
      ELSE w.cf

\* the key of a change in filesMap
StatKey(change) == change.nameTo \o change.nameFrom

\* one round of the loop over treeDiff
statsChange(filesMap, change) ==
  LET key == StatKey(change)
      cf == IF key \in DOMAIN filesMap
            THEN [filesMap[key] EXCEPT !.ToName = change.nameTo,
                                       !.FromName = change.nameFrom]
            ELSE FileStat(change.nameTo, change.nameFrom, 0, 0, 0)
  IN  CASE change.action = "Insert" ->
             Put(filesMap, key,
                 IF change.binary THEN cf ELSE [cf EXCEPT !.Added = @ + change.lines])
        [] change.action = "Delete" ->
             Put(filesMap, key,
                 IF change.binary THEN cf ELSE [cf EXCEPT !.Removed = @ + change.lines])
        [] change.action = "Modify" ->
             Put(filesMap, key, statsModify(cf, change.thisDiffs.Diffs))
        [] OTHER -> Put(filesMap, key, cf)

RECURSIVE statsProcess(_, _)
statsProcess(filesMap, treeDiff) ==
  IF treeDiff = <<>> THEN filesMap
  ELSE statsProcess(statsChange(filesMap, Head(treeDiff)), Tail(treeDiff))

\* the changes of a commit: a Modify of "a" by any script, and beside it an
\* insertion, a binary insertion or a deletion of "b"
StatModifies ==
  {Change("Modify", "a", "a", NewLength(d), FileDiffData(OldLength(d), NewLength(d), d),
          FALSE) : d \in Scripts}

StatOthers ==
  {Change("Insert", "", "b", 1, NoDiffs, FALSE), BinB,
   Change("Delete", "b", "", 1, NoDiffs, FALSE)}

TreeDiffs ==
  {<<>>} \cup {<<c>> : c \in StatModifies \cup StatOthers}
         \cup {<<c, d>> : c \in StatOthers, d \in StatModifies}

\* CommitsAnalysis.Consume
CommitsConsume(isMerge, treeDiff) ==
  /\ commits' = IF isMerge \/ treeDiff = <<>> THEN commits
                ELSE Append(commits, [changes |-> treeDiff,
                                      Files |-> statsProcess(<<>>, treeDiff)])
  /\ UNCHANGED <<ret, file, lines0, emitted, globalStatus, files, sideFiles, store,
                 objects, commitDeps, people>>
  /\ MergeIdle
  /\ TreeIdle

InitStats ==
  /\ heap = <<>>
  /\ tree = RBTree
  /\ copyTree = NoCopy
  /\ iter = NoIter
  /\ ret = NoRet
  /\ file = <<>>
  /\ lines0 = 0
  /\ emitted = 0
  /\ globalStatus = newGlobalCounter
  /\ files = <<>>
  /\ sideFiles = <<>>
  /\ NoStore

NextStats ==
  Len(commits) < MaxStatCommits
    /\ \E isMerge \in BOOLEAN, treeDiff \in TreeDiffs : CommitsConsume(isMerge, treeDiff)

SpecStats == InitStats /\ [][NextStats]_vars

(***************************************************************************)
(* Claims on the line statistics.                                          *)
(***************************************************************************)
\* no Delete edit directly follows another Delete edit
NoDoubleDelete(diffs) ==
  \A i \in 2..Len(diffs) : ~(diffs[i].Type = DiffDelete /\ diffs[i - 1].Type = DiffDelete)

\* what change i of the commit c added to the statistics of its file
StatsAdded(c, i) ==
  LET key == StatKey(c.changes[i])
      before == statsProcess(<<>>, SubSeq(c.changes, 1, i - 1))
      after == statsProcess(<<>>, SubSeq(c.changes, 1, i))
      b == IF key \in DOMAIN before THEN before[key] ELSE FileStat("", "", 0, 0, 0)
  IN  [Added |-> after[key].Added - b.Added, Removed |-> after[key].Removed - b.Removed,
       Changed |-> after[key].Changed - b.Changed]

\* C40: for each Modify change of a non-merge commit whose script has no Delete
\* directly after a Delete, the statistics Consume adds have Added + Changed = the
\* total length of the Insert edits and Removed + Changed = the total length of
\* the Delete edits.
C40_LineStats ==
  \A n \in DOMAIN commits :
    /\ commits[n].Files = statsProcess(<<>>, commits[n].changes)
    /\ \A i \in DOMAIN commits[n].changes :
         LET ch == commits[n].changes[i]
             s == StatsAdded(commits[n], i)
         IN  (ch.action = "Modify" /\ NoDoubleDelete(ch.thisDiffs.Diffs))
               => /\ s.Added + s.Changed = lengthOf(ch.thisDiffs.Diffs, {DiffInsert})
                  /\ s.Removed + s.Changed = lengthOf(ch.thisDiffs.Diffs, {DiffDelete})

\* A commit whose Modify deletes two lines, inserts one and keeps one: one line
\* changed, one removed, none added.
C40_Witness ==
  /\ Len(commits) = 1
  /\ Len(commits[1].changes) = 1
  /\ commits[1].changes[1].thisDiffs.Diffs =
       <<Edit(DiffDelete, 2), Edit(DiffInsert, 1), Edit(DiffEqual, 1)>>
  /\ commits[1].Files["aa"].Changed = 1
  /\ commits[1].Files["aa"].Removed = 1
  /\ commits[1].Files["aa"].Added = 0

====
